---- MODULE Spec2Model ----
(***************************************************************************)
(* A model of the 2048 TD-learning core: the board engine (4x4 and 5x5),   *)
(* the pattern / symmetry catalog and the N-tuple value network.           *)
(*                                                                         *)
(* Boards and lines are functions over 0..n-1, as the Uint8Array of the    *)
(* source; a cell holds a tile code (0 = empty, k = tile 2^k).             *)
(***************************************************************************)
EXTENDS Integers, Sequences, FiniteSets, TLC

VARIABLES
  side,     \* SIZE of the engine module in use (4: engine4x4.js, 5: engine.js)
  board,    \* the caller's board object (Uint8Array)
  line,     \* the line buffer handed to slideLine
  lut,      \* the network's lookup tables, one per base pattern
  res,      \* what the last call returned, with a snapshot of its arguments
  prev,     \* res of the call before the last one
  ops,      \* number of calls made so far
  ep        \* the frame of the episode or game being played: its locals,
            \* its position, and the network calls it has made

vars == <<side, board, line, lut, res, prev, ops, ep>>

(***************************************************************************)
(* Bounds of the model.                                                    *)
(***************************************************************************)
\* calls made on one board in the engine specification
MaxEngineOps == 1
\* largest tile code of the lines enumerated for slideLine
MaxLineCode == 3
\* calls made on one network in the network specification
MaxNetOps == 3
\* calls made on one network in the load specification
MaxLoadOps == 2
\* calls made in the save specification
MaxSaveOps == 3
\* longest cell list, besides the catalog's, handed to allSymmetries
MaxTupleLen == 2
\* calls made in the player specification
MaxPlayerOps == 2
\* largest magnitude of a weight, in weight units (2^25)
WeightCap == 33554432

(***************************************************************************)
(* Board engine (src/game/engine4x4.js, and the 5x5 twin).                 *)
(***************************************************************************)
Sizes == {4, 5}

\* the element of a set of one element: Only({e(x) : x \in {v}}) is e(x) with
\* x standing for the value of v, computed once
Only(S) == CHOOSE v \in S : TRUE

TOTAL(size) == size * size

\* 1 << k on an int32 (the shift count is taken modulo 32)
Shl1(k) == 2 ^ (k % 32)

\* a store into a Uint8Array cell
U8(v) == v % 256

tileValue(log2val) == IF log2val = 0 THEN 0 ELSE Shl1(log2val)

RECURSIVE toLog2Loop(_, _)
toLog2Loop(v, n) == IF v > 1 THEN toLog2Loop(v \div 2, n + 1) ELSE n

toLog2(val) == IF val = 0 THEN 0 ELSE toLog2Loop(val, 0)

\* grid: a sequence of rows, each a sequence of actual tile values
fromGrid(grid, size) ==
  [i \in 0..(TOTAL(size) - 1) |-> toLog2(grid[(i \div size) + 1][(i % size) + 1])]

toGrid(b, size) ==
  [r \in 1..size |-> [c \in 1..size |-> tileValue(b[(r - 1) * size + (c - 1)])]]

cloneBoard(b) == [i \in DOMAIN b |-> b[i]]

\* the first and third loops of slideLine: move the non-zero cells to the front
RECURSIVE compactLoop(_, _, _, _)
compactLoop(ln, i, write, size) ==
  IF i >= size
    THEN [j \in 0..(size - 1) |-> IF j >= write THEN 0 ELSE ln[j]]
    ELSE IF ln[i] # 0
      THEN Only({compactLoop(next, i + 1, write + 1, size) :
                   next \in {[ln EXCEPT ![write] = ln[i]]}})
      ELSE compactLoop(ln, i + 1, write, size)

\* compact, for a line that is computed once
compactOnce(ln, size) == Only({compactLoop(given, 0, 0, size) : given \in {ln}})

compact(ln, size) == compactOnce(ln, size)

\* the reward of one merge that produced a tile of code v
mergedRewardPre(v) == Shl1(v - 1)

mergedReward(v) == Shl1(v)

\* a merge loop that leaves the second tile of a merged pair in its cell
RECURSIVE mergeLoopKeepsSecond(_, _, _, _)
mergeLoopKeepsSecond(ln, i, reward, size) ==
  IF i >= size - 1
    THEN [line |-> ln, reward |-> reward]
    ELSE IF ln[i] # 0 /\ ln[i] = ln[i + 1]
      THEN Only({mergeLoopKeepsSecond(next, i + 2, reward + mergedReward(next[i]),
                                      size) :
                   next \in {[ln EXCEPT ![i] = U8(ln[i] + 1)]}})
      ELSE mergeLoopKeepsSecond(ln, i + 1, reward, size)

\* the merge loop of slideLine
RECURSIVE mergeLoop(_, _, _, _)
mergeLoop(ln, i, reward, size) ==
  IF i >= size - 1
    THEN [line |-> ln, reward |-> reward]
    ELSE IF ln[i] # 0 /\ ln[i] = ln[i + 1]
      THEN Only({mergeLoop(next, i + 2, reward + mergedReward(next[i]), size) :
                   next \in {[ln EXCEPT ![i] = U8(ln[i] + 1), ![i + 1] = 0]}})
      ELSE mergeLoop(ln, i + 1, reward, size)

slideLineNoRecompact(ln, size) ==
  Only({mergeLoop(compacted, 0, 0, size) : compacted \in {compact(ln, size)}})

slideLine(ln, size) ==
  Only({[line |-> compact(m.line, size), reward |-> m.reward] :
          m \in {Only({mergeLoop(compacted, 0, 0, size) :
                         compacted \in {compact(ln, size)}})}})

\* a switch that reads the lines of direction 1 from the left
lineIndexRightFromLeft(dir, k, i, size) ==
  CASE dir = 0 -> i * size + k
    [] dir = 1 -> k * size + i
    [] dir = 2 -> (size - 1 - i) * size + k
    [] dir = 3 -> k * size + i

\* the switch of move: the board index of cell i of line k in direction dir
\* (0 = up, 1 = right, 2 = down, 3 = left)
lineIndex(dir, k, i, size) ==
  CASE dir = 0 -> i * size + k
    [] dir = 1 -> k * size + (size - 1 - i)
    [] dir = 2 -> (size - 1 - i) * size + k
    [] dir = 3 -> k * size + i

\* the comparison of the slid line with its copy
lineChangedFirstCell(ln, orig, size) == ln[0] # orig[0]

lineChanged(ln, orig, size) == \E i \in 0..(size - 1) : ln[i] # orig[i]

\* one iteration of the loop of move, for line k: the line is read from
\* the board, slid, compared with its copy and written back
moveLine(b, dir, k, reward, moved, size) ==
  Only({Only({[board  |-> [c \in DOMAIN b |->
                            IF \E i \in 0..(size - 1) : lineIndex(dir, k, i, size) = c
                              THEN s.line[CHOOSE i \in 0..(size - 1) :
                                             lineIndex(dir, k, i, size) = c]
                              ELSE b[c]],
               reward |-> reward + s.reward,
               moved  |-> moved \/ lineChanged(s.line, orig, size)] :
                s \in {slideLine(orig, size)}}) :
          orig \in {[i \in 0..(size - 1) |-> b[lineIndex(dir, k, i, size)]]}})

RECURSIVE moveLoop(_, _, _, _, _, _)
moveLoop(b, dir, k, reward, moved, size) ==
  IF k >= size
    THEN [board |-> b, moved |-> moved, reward |-> reward]
    ELSE Only({moveLoop(step.board, dir, k + 1, step.reward, step.moved, size) :
                 step \in {moveLine(b, dir, k, reward, moved, size)}})

\* move(board, dir): the board after the call, and what it returns
move(b, dir, size) == moveLoop(b, dir, 0, 0, FALSE, size)

\* an exploration that moves the caller's board itself
exploreMoveInPlace(b, dir, size) ==
  Only({[board |-> result.board, after |-> result.board, moved |-> result.moved,
         reward |-> result.reward] :
          result \in {move(b, dir, size)}})

\* const after = cloneBoard(board); const result = move(after, dir): the
\* caller's board and the clone after the two calls, and the result
exploreMove(b, dir, size) ==
  Only({[board |-> b, after |-> result.board, moved |-> result.moved,
         reward |-> result.reward] :
          result \in {move(cloneBoard(b), dir, size)}})

\* moveClone(board, dir): what it returns
moveClone(b, dir, size) ==
  LET explored == exploreMove(b, dir, size)
  IN  [board |-> explored.after, moved |-> explored.moved, reward |-> explored.reward]

\* the board passed to moveClone, after the call
moveCloneArgument(b, dir, size) == exploreMove(b, dir, size).board

\* the right and the lower neighbour tests of canMove, at cell (r, c)
adjacentEqualNoEdge(b, r, c, size) ==
  \/ (r * size + c + 1 < TOTAL(size) /\ b[r * size + c] = b[r * size + c + 1])
  \/ (r < size - 1 /\ b[r * size + c] = b[(r + 1) * size + c])

adjacentEqual(b, r, c, size) ==
  \/ (c < size - 1 /\ b[r * size + c] = b[r * size + c + 1])
  \/ (r < size - 1 /\ b[r * size + c] = b[(r + 1) * size + c])

\* a canMove without the test for an empty cell
canMoveNoEmptyTest(b, size) ==
  \E r \in 0..(size - 1), c \in 0..(size - 1) : adjacentEqual(b, r, c, size)

canMove(b, size) ==
  \/ \E i \in 0..(TOTAL(size) - 1) : b[i] = 0
  \/ \E r \in 0..(size - 1), c \in 0..(size - 1) : adjacentEqual(b, r, c, size)

\* the cells addRandomTile may fill
emptyCellsAll(b, size) == 0..(TOTAL(size) - 1)

emptyCells(b, size) == {i \in 0..(TOTAL(size) - 1) : b[i] = 0}

\* Math.random() < 0.9 ? 1 : 2
spawnCodes == {1, 2}

\* every outcome of addRandomTile(board): the board after the call, and the result
addRandomTile(b, size) ==
  IF emptyCells(b, size) = {}
    THEN {[board |-> b, ok |-> FALSE]}
    ELSE {[board |-> [b EXCEPT ![idx] = code], ok |-> TRUE] :
            idx \in emptyCells(b, size), code \in spawnCodes}

maxTile(b, size) ==
  CHOOSE m \in {b[i] : i \in 0..(TOTAL(size) - 1)} \cup {0} :
    \A i \in 0..(TOTAL(size) - 1) : b[i] <= m

emptyCount(b, size) == Cardinality(emptyCells(b, size))

(***************************************************************************)
(* Pattern and symmetry catalog (src/network/patterns4x4.js, patterns.js,  *)
(* and the symmetry modules).  A pattern is a sequence of cell indices.    *)
(***************************************************************************)
idx(r, c, size) == r * size + c

BASE_PATTERNS(size) ==
  IF size = 4
    THEN << <<idx(0,0,4), idx(0,1,4), idx(0,2,4), idx(1,0,4), idx(1,1,4), idx(1,2,4)>>,
            <<idx(0,0,4), idx(0,1,4), idx(1,0,4), idx(1,1,4), idx(2,0,4), idx(2,1,4)>>,
            <<idx(0,0,4), idx(0,1,4), idx(0,2,4), idx(1,0,4), idx(1,1,4), idx(2,0,4)>>,
            <<idx(0,0,4), idx(0,1,4), idx(0,2,4), idx(0,3,4)>>,
            <<idx(0,0,4), idx(0,1,4), idx(1,0,4), idx(1,1,4)>>,
            <<idx(0,0,4), idx(0,1,4), idx(1,1,4), idx(1,2,4)>>,
            <<idx(0,0,4), idx(1,0,4), idx(2,0,4), idx(2,1,4)>> >>
    ELSE << <<idx(0,0,5), idx(0,1,5), idx(0,2,5), idx(1,0,5), idx(1,1,5), idx(2,0,5)>>,
            <<idx(0,0,5), idx(0,1,5), idx(0,2,5), idx(1,0,5), idx(1,1,5), idx(1,2,5)>>,
            <<idx(0,0,5), idx(0,1,5), idx(0,2,5), idx(0,3,5), idx(0,4,5)>>,
            <<idx(0,0,5), idx(1,0,5), idx(2,0,5), idx(3,0,5), idx(4,0,5)>>,
            <<idx(0,0,5), idx(0,1,5), idx(1,0,5), idx(1,1,5), idx(0,2,5)>>,
            <<idx(0,0,5), idx(0,1,5), idx(1,1,5), idx(1,2,5), idx(2,2,5)>>,
            <<idx(0,0,5), idx(0,1,5), idx(0,2,5), idx(1,1,5), idx(2,1,5)>>,
            <<idx(0,0,5), idx(0,1,5), idx(1,0,5), idx(1,1,5)>>,
            <<idx(0,0,5), idx(0,1,5), idx(0,2,5), idx(0,3,5)>>,
            <<idx(0,0,5), idx(1,0,5), idx(2,0,5), idx(3,0,5)>>,
            <<idx(0,0,5), idx(0,1,5), idx(1,1,5), idx(1,2,5)>>,
            <<idx(0,0,5), idx(0,1,5), idx(1,0,5), idx(2,0,5)>> >>

NUM_VALUES == 16

lutSize(tupleLength) == NUM_VALUES ^ tupleLength

\* a composition that rotates first and reflects afterwards
transformFnRotateFirst(t, r, c, size) ==
  CASE t = 1 -> <<r, c>>
    [] t = 2 -> <<c, size - 1 - r>>
    [] t = 3 -> <<size - 1 - r, size - 1 - c>>
    [] t = 4 -> <<size - 1 - c, r>>
    [] t = 5 -> <<r, size - 1 - c>>
    [] t = 6 -> <<c, r>>
    [] t = 7 -> <<size - 1 - r, c>>
    [] t = 8 -> <<size - 1 - c, size - 1 - r>>

\* a transformation that returns the pattern as it is
applySymmetryNone(pattern, symMap) == pattern

\* the eight transform functions, in the order of SYMMETRY_MAPS:
\* identity, rot90, rot180, rot270, flipH, flipH_rot90, flipH_rot180, flipH_rot270
transformFn(t, r, c, size) ==
  CASE t = 1 -> <<r, c>>
    [] t = 2 -> <<c, size - 1 - r>>
    [] t = 3 -> <<size - 1 - r, size - 1 - c>>
    [] t = 4 -> <<size - 1 - c, r>>
    [] t = 5 -> <<r, size - 1 - c>>
    [] t = 6 -> LET r1 == r  c1 == size - 1 - c IN <<c1, size - 1 - r1>>
    [] t = 7 -> LET r1 == r  c1 == size - 1 - c IN <<size - 1 - r1, size - 1 - c1>>
    [] t = 8 -> LET r1 == r  c1 == size - 1 - c IN <<size - 1 - c1, r1>>

buildMap(t, size) ==
  [cell \in 0..(size * size - 1) |->
     LET n == transformFn(t, cell \div size, cell % size, size)
     IN  n[1] * size + n[2]]

SYMMETRY_MAPS(size) == [t \in 1..8 |-> buildMap(t, size)]

applySymmetry(pattern, symMap) == [i \in 1..Len(pattern) |-> symMap[pattern[i]]]

\* the loop of allSymmetries; the Set of joined keys holds a list exactly
\* when the list is already among the variants
RECURSIVE allSymmetriesLoop(_, _, _, _)
allSymmetriesLoop(pattern, maps, t, variants) ==
  IF t > Len(maps)
    THEN variants
    ELSE LET transformed == applySymmetry(pattern, maps[t])
         IN  IF \E j \in 1..Len(variants) : variants[j] = transformed
               THEN allSymmetriesLoop(pattern, maps, t + 1, variants)
               ELSE allSymmetriesLoop(pattern, maps, t + 1,
                                      Append(variants, transformed))

\* an expansion that keeps every transformed list
allSymmetriesKeepAll(pattern, size) ==
  [t \in 1..8 |-> [i \in 1..Len(pattern) |-> buildMap(t, size)[pattern[i]]]]

allSymmetries(pattern, size) ==
  allSymmetriesLoop(pattern, SYMMETRY_MAPS(size), 1, << >>)

(***************************************************************************)
(* N-tuple network for the 4x4 board (src/network/ntuple4x4.js).           *)
(*                                                                         *)
(* Weights are float32 numbers.  The model holds them as integers counted  *)
(* in one fixed power-of-two unit, which float32 rounding does not depend  *)
(* on; a LUT is held sparsely, as the function from the indices of its     *)
(* non-zero entries to their values.                                       *)
(***************************************************************************)
\* what the constructor builds: tupleLen and variants of every base pattern
patterns ==
  [p \in 1..Len(BASE_PATTERNS(4)) |->
     [tupleLen |-> Len(BASE_PATTERNS(4)[p]),
      variants |-> allSymmetries(BASE_PATTERNS(4)[p], 4)]]

\* new Float32Array(size) for every pattern: all zero
newLuts == [p \in 1..Len(patterns) |-> << >>]

Abs(x) == IF x < 0 THEN -x ELSE x

\* the largest power of two that is at most a, for a >= 1
RECURSIVE floorPow2(_, _)
floorPow2(a, q) == IF 2 * q > a THEN q ELSE floorPow2(a, 2 * q)

\* Math.fround: the float32 nearest to n, ties to the even significand
\* (24 bits of significand)
fround(n) ==
  LET a == IF n < 0 THEN -n ELSE n
  IN  IF a < 16777216 THEN n
      ELSE LET q     == floorPow2(a, 1) \div 8388608
               lower == (a \div q) * q
               rem   == a - lower
               up    == \/ 2 * rem > q
                        \/ (2 * rem = q /\ (lower \div q) % 2 = 1)
               m     == IF up THEN lower + q ELSE lower
           IN  IF n < 0 THEN -m ELSE m

\* the index -1 stands for NaN (an index computed from an undefined cell)
NaNIndex == -1

\* board[cell] of a Uint8Array: undefined outside the array
RECURSIVE indexLoop(_, _, _, _)
indexLoop(b, pattern, i, acc) ==
  IF i > Len(pattern) THEN acc
  ELSE IF acc = NaNIndex \/ pattern[i] \notin DOMAIN b
    THEN indexLoop(b, pattern, i + 1, NaNIndex)
    ELSE Only({indexLoop(b, pattern, i + 1, next) :
                 next \in {acc * NUM_VALUES + b[pattern[i]]}})

indexLittleEndian(b, pattern) ==
  indexLoop(b, [i \in 1..Len(pattern) |-> pattern[Len(pattern) + 1 - i]], 1, 0)

\* NTupleNetwork._index
index(b, pattern) == indexLoop(b, pattern, 1, 0)

\* lut[i] read from a Float32Array of the given length: undefined (nan) when
\* i is NaN or outside the array
f32Get(l, len, i) ==
  IF i = NaNIndex \/ i < 0 \/ i >= len THEN [nan |-> TRUE, v |-> 0]
  ELSE [nan |-> FALSE, v |-> IF i \in DOMAIN l THEN l[i] ELSE 0]

\* lut[i] = v stored into a Float32Array: rounded to float32, and ignored
\* when i is NaN or outside the array
f32Set(l, len, i, v) ==
  IF i = NaNIndex \/ i < 0 \/ i >= len THEN l
  ELSE IF fround(v) = 0 THEN [j \in (DOMAIN l) \ {i} |-> l[j]]
  ELSE [j \in (DOMAIN l) \cup {i} |-> IF j = i THEN fround(v) ELSE l[j]]

\* value += x on doubles, x possibly undefined
numAdd(value, x) ==
  Only({IF a.nan \/ b.nan THEN [nan |-> TRUE, v |-> 0]
        ELSE [nan |-> FALSE, v |-> a.v + b.v] :
          a \in {value}, b \in {x}})

\* the inner loop of evaluate: the variants of pattern p
RECURSIVE evaluateVariants(_, _, _, _, _)
evaluateVariants(l, b, p, j, value) ==
  IF j > Len(patterns[p].variants) THEN value
  ELSE Only({evaluateVariants(l, b, p, j + 1, next) :
               next \in {numAdd(value, f32Get(l[p], lutSize(patterns[p].tupleLen),
                                              index(b, patterns[p].variants[j])))}})

\* the outer loop of evaluate: the patterns.  The sums are exact (whole
\* numbers of weight units below 2^53), so the contributions of the patterns
\* are accumulated separately and then added up in pattern order.
RECURSIVE evaluateLoop(_, _, _)
evaluateLoop(sums, p, value) ==
  IF p > Len(patterns) THEN value
  ELSE Only({evaluateLoop(sums, p + 1, next) : next \in {numAdd(value, sums[p])}})

\* NTupleNetwork.evaluate
evaluate(l, b) ==
  LET zero == [nan |-> FALSE, v |-> 0]
  IN  Only({evaluateLoop(sums, 1, zero) :
              sums \in {[p \in 1..Len(patterns) |->
                           evaluateVariants(l, b, p, 1, zero)]}})

\* the number +Infinity, which a weight becomes once an addition overflows
\* or the delta added is itself infinite; it is held as 2^29 weight units,
\* above every finite weight of the model, and float32 rounding keeps it
Infinity == 536870912

\* x + d on numbers
numPlus(x, d) == IF x = Infinity \/ d = Infinity THEN Infinity ELSE x + d

\* lut[i] += delta
addAssignStore(l, len, i, delta) == f32Set(l, len, i, delta)

addAssign(l, len, i, delta) ==
  LET old == f32Get(l, len, i)
  IN  IF old.nan THEN l ELSE f32Set(l, len, i, numPlus(old.v, delta))

\* the inner loop of update: the variants of pattern p, on its own lut
RECURSIVE updateVariants(_, _, _, _, _)
updateVariants(lp, b, delta, p, j) ==
  IF j > Len(patterns[p].variants) THEN lp
  ELSE Only({updateVariants(next, b, delta, p, j + 1) :
               next \in {addAssign(lp, lutSize(patterns[p].tupleLen),
                                   index(b, patterns[p].variants[j]), delta)}})

\* an update that writes each addressed entry once
updateDedup(l, b, delta) ==
  [p \in 1..Len(patterns) |->
     LET len == lutSize(patterns[p].tupleLen)
         hit == {index(b, patterns[p].variants[j]) :
                   j \in 1..Len(patterns[p].variants)}
         dom == (DOMAIN l[p]) \cup {i \in hit : i >= 0 /\ i < len}
         val(i) == IF i \in hit THEN fround(f32Get(l[p], len, i).v + delta)
                   ELSE l[p][i]
     IN  [i \in {k \in dom : val(k) # 0} |-> val(i)]]

\* NTupleNetwork.update
update(l, b, delta) ==
  [p \in 1..Len(patterns) |-> updateVariants(l[p], b, delta, p, 1)]

(***************************************************************************)
(* Weight files.  A stored LUT array is [len, vals]: its length and the    *)
(* function from the indices of its non-zero elements to their values.     *)
(*   text file:   [numPatterns, patterns: <<[tupleLen, lutSize, lut]>>]    *)
(*   binary file: [numPatterns, patterns: <<[tupleLen, lutLen, floats]>>], *)
(*                floats.len < lutLen when the file ends inside the LUT    *)
(***************************************************************************)
\* the JSON value null, held as a number no weight takes
JsonNull == -536870912

\* ToNumber of an array element: null converts to 0
toNumber(x) == IF x = JsonNull THEN 0 ELSE x

\* TypedArray.prototype.set(array): copies array.length elements to the front
typedSet(l, arr) ==
  LET keep == {j \in DOMAIN l : j >= arr.len}
      new  == {j \in DOMAIN arr.vals :
                 j < arr.len /\ fround(toNumber(arr.vals[j])) # 0}
  IN  [k \in keep \cup new |->
         IF k \in new THEN fround(toNumber(arr.vals[k])) ELSE l[k]]

RECURSIVE loadLoop(_, _, _)
loadLoop(l, data, i) ==
  IF i > Len(patterns) THEN [lut |-> l, outcome |-> "ok"]
  ELSE IF i > Len(data.patterns)
    THEN [lut |-> l, outcome |-> "error"]      \* saved is undefined: TypeError
  ELSE LET saved == data.patterns[i]
           len   == lutSize(patterns[i].tupleLen)
       IN  IF saved.lutSize # len
             THEN [lut |-> l, outcome |-> "error"]          \* LUT size mismatch
           ELSE IF saved.lut.len > len
             THEN [lut |-> l, outcome |-> "error"]          \* RangeError of set
           ELSE loadLoop([l EXCEPT ![i] = typedSet(l[i], saved.lut)], data, i + 1)

\* NTupleNetwork.load: the tables after the call, and whether it threw
load(l, data) ==
  IF data.numPatterns # Len(patterns)
    THEN [lut |-> l, outcome |-> "error"]
    ELSE loadLoop(l, data, 1)

RECURSIVE loadBinaryLoop(_, _, _)
loadBinaryLoop(l, file, i) ==
  IF i > file.numPatterns THEN [lut |-> l, outcome |-> "ok"]
  ELSE IF i > Len(file.patterns)
    THEN [lut |-> l, outcome |-> "error"]      \* getInt32 past the end
  ELSE LET saved == file.patterns[i]
           len   == lutSize(patterns[i].tupleLen)
       IN  IF saved.lutLen # len
             THEN [lut |-> l, outcome |-> "error"]          \* LUT size mismatch
           ELSE IF saved.floats.len < saved.lutLen
             THEN [lut |-> l, outcome |-> "error"]          \* Float32Array past the end
           ELSE loadBinaryLoop([l EXCEPT ![i] = typedSet(l[i], saved.floats)],
                               file, i + 1)

\* NTupleNetwork.loadBinary
loadBinary(l, file) ==
  IF file.numPatterns # Len(patterns)
    THEN [lut |-> l, outcome |-> "error"]
    ELSE loadBinaryLoop(l, file, 1)

\* JSON.stringify of a number followed by JSON.parse: a finite number is
\* written with the digits that read back to the same double, a number that
\* is not finite is written as null
jsonNumber(x) == IF x = Infinity THEN JsonNull ELSE x

\* NTupleNetwork.save followed by JSON.parse of the file: the data load reads
save(l) ==
  [numPatterns |-> Len(patterns),
   patterns |->
     [p \in 1..Len(patterns) |->
        [tupleLen    |-> patterns[p].tupleLen,
         numVariants |-> Len(patterns[p].variants),
         lutSize     |-> lutSize(patterns[p].tupleLen),
         lut         |-> [len  |-> lutSize(patterns[p].tupleLen),
                          vals |-> [i \in DOMAIN l[p] |-> jsonNumber(l[p][i])]]]]]

\* NTupleNetwork.saveBinary: the bytes of every LUT, copied as they are
saveBinary(l) ==
  [numPatterns |-> Len(patterns),
   patterns |->
     [p \in 1..Len(patterns) |->
        [tupleLen |-> patterns[p].tupleLen,
         lutLen   |-> lutSize(patterns[p].tupleLen),
         floats   |-> [len  |-> lutSize(patterns[p].tupleLen),
                       vals |-> l[p]]]]]

(***************************************************************************)
(* Move selection (GreedyPlayer, ExpectimaxPlayer, and the selection loop  *)
(* of playEpisode and playEvalGame).  A value is [nan, negInf, n, d]: not  *)
(* a number, -Infinity, or the fraction n / d with d > 0.  The sums of a   *)
(* chance node are held as exact fractions; the doubles of the source      *)
(* round them, which can change the order of nearly equal values but not   *)
(* whether a value is a number.                                            *)
(***************************************************************************)
\* -Infinity, the bestValue a selection loop starts with
MinusInfinity == [nan |-> FALSE, negInf |-> TRUE, n |-> 0, d |-> 1]

\* a whole number as a value
whole(v) == [nan |-> FALSE, negInf |-> FALSE, n |-> v, d |-> 1]

\* what evaluate returned as a value
evaluated(e) ==
  Only({[nan |-> x.nan, negInf |-> FALSE, n |-> x.v, d |-> 1] : x \in {e}})

\* the greatest common divisor of a >= 0 and b >= 0
RECURSIVE gcd(_, _)
gcd(a, b) == IF b = 0 THEN a ELSE gcd(b, a % b)

\* the fraction n / d in lowest terms
lowest(n, d) ==
  LET g == gcd(IF n < 0 THEN -n ELSE n, d)
  IN  [nan |-> FALSE, negInf |-> FALSE, n |-> n \div g, d |-> d \div g]

\* x + y
valuePlus(x, y) ==
  Only({IF a.nan \/ b.nan THEN [nan |-> TRUE, negInf |-> FALSE, n |-> 0, d |-> 1]
        ELSE IF a.negInf \/ b.negInf THEN MinusInfinity
        ELSE LET g == gcd(a.d, b.d)
             IN  lowest(a.n * (b.d \div g) + b.n * (a.d \div g),
                        (a.d \div g) * b.d) :
          a \in {x}, b \in {y}})

\* (a / b) * x, for a > 0 and b > 0
valueTimes(a, b, x) ==
  Only({IF v.nan \/ v.negInf THEN v ELSE lowest(a * v.n, b * v.d) : v \in {x}})

\* value > bestValue that takes a candidate even when both are equal
valueGreaterOrEqual(x, y) ==
  /\ ~x.nan /\ ~y.nan
  /\ y.negInf \/ (~x.negInf /\ x.n * y.d >= y.n * x.d)

\* value > bestValue: false when either is not a number
valueGreater(x, y) ==
  /\ ~x.nan /\ ~y.nan
  /\ ~x.negInf
  /\ y.negInf \/ x.n * y.d > y.n * x.d

\* the locals of a selection loop before its first iteration
NoBest ==
  [bestDir |-> -1, bestValue |-> MinusInfinity, bestAfterstate |-> << >>,
   bestReward |-> 0]

\* one iteration of the selection loop of playEpisode, for direction dir: the
\* afterstate of the move on a clone, skipped when the move changes nothing;
\* the locals and the caller's board after the iteration
bestMoveStep(l, b, dir, best, size) ==
  Only({IF ~result.moved THEN [best |-> best, board |-> result.board]
        ELSE Only({IF valueGreater(value, best.bestValue)
                     THEN [best |-> [bestDir |-> dir, bestValue |-> value,
                                     bestAfterstate |-> result.after,
                                     bestReward |-> result.reward],
                           board |-> result.board]
                     ELSE [best |-> best, board |-> result.board] :
                   value \in {valuePlus(whole(result.reward),
                                        evaluated(evaluate(l, result.after)))}}) :
          result \in {exploreMove(b, dir, size)}})

\* the selection loop of playEpisode: for dir = 0..3; board is the caller's
\* board after the loop
RECURSIVE bestMoveLoop(_, _, _, _, _)
bestMoveLoop(l, b, dir, best, size) ==
  IF dir >= 4
    THEN [bestDir |-> best.bestDir, bestValue |-> best.bestValue,
          bestAfterstate |-> best.bestAfterstate, bestReward |-> best.bestReward,
          board |-> b]
  ELSE Only({bestMoveLoop(l, step.board, dir + 1, step.best, size) :
               step \in {bestMoveStep(l, b, dir, best, size)}})

bestMove(l, b, size) == bestMoveLoop(l, b, 0, NoBest, size)

\* GreedyPlayer.selectMove
greedySelectMove(l, b, size) == bestMove(l, b, size).bestDir

\* the empty cells of a board in index order, as a sequence
RECURSIVE emptyList(_, _, _)
emptyList(b, i, size) ==
  IF i >= TOTAL(size) THEN << >>
  ELSE IF b[i] = 0 THEN <<i>> \o emptyList(b, i + 1, size)
  ELSE emptyList(b, i + 1, size)

\* the denominator of the numbers Math.random() returns
RandomUnit == 16

\* the value of the call of Math.random() at position pos of the stream
random(stream, pos) == stream[(pos % Len(stream)) + 1]

\* the sequences of values the calls of Math.random() in one sampleCells
\* return: every swap leaves its cell in place, and a shuffle that moves cells
Picks == {<<15>>, <<0, 11, 5, 14, 3>>}

\* a swap that stores sampled[j] in both cells
swapCellsCopied(sampled, i, j) ==
  [sampled EXCEPT ![i + 1] = sampled[j + 1]]

\* [sampled[i], sampled[j]] = [sampled[j], sampled[i]], for indices from 0
swapCells(sampled, i, j) ==
  [sampled EXCEPT ![i + 1] = sampled[j + 1], ![j + 1] = sampled[i + 1]]

\* the loop of sampleCells: for (i = sampled.length - 1; i > 0 &&
\* sampled.length > n; i--), with j = Math.floor(Math.random() * (i + 1))
RECURSIVE shuffleLoop(_, _, _, _, _)
shuffleLoop(sampled, i, n, pick, pos) ==
  IF ~(i > 0 /\ Len(sampled) > n) THEN sampled
  ELSE Only({shuffleLoop(swapped, i - 1, n, pick, pos + 1) :
               swapped \in {swapCells(sampled, i,
                              (random(pick, pos) * (i + 1)) \div RandomUnit)}})

\* sampled.slice(0, n)
sliceFirst(sampled, n) ==
  SubSeq(sampled, 1, IF Len(sampled) < n THEN Len(sampled) ELSE n)

\* sampleCells(cells, n), when the calls of Math.random() return pick
sampleCells(cells, n, pick) ==
  sliceFirst(shuffleLoop(cells, Len(cells) - 1, n, pick, 0), n)

\* const cells = empty.length <= 8 ? empty : sampleCells(empty, 8)
expandedCells(empty, pick) ==
  IF Len(empty) <= 8 THEN empty ELSE sampleCells(empty, 8, pick)

RECURSIVE chanceNode(_, _, _, _, _)
RECURSIVE playerNode(_, _, _, _, _)
RECURSIVE chanceLoop(_, _, _, _, _, _, _, _)
RECURSIVE playerLoop(_, _, _, _, _, _, _, _)

\* an iteration that weights the tile 4 with 0.9 and the tile 2 with 0.1
chanceStepWeightsSwapped(l, b, depth, size, pick, cell, total) ==
  LET withTwo  == [b EXCEPT ![cell] = 1]
      withFour == [withTwo EXCEPT ![cell] = 2]
      restored == [withFour EXCEPT ![cell] = 0]
  IN  Only({[total |-> valuePlus(valuePlus(total, valueTimes(1, 10, two)),
                                 valueTimes(9, 10, four)),
             board |-> restored] :
              two  \in {playerNode(l, withTwo, depth, size, pick)},
              four \in {playerNode(l, withFour, depth, size, pick)}})

\* one iteration of the loop of _chanceNode, for one cell idx: board[idx] = 1
\* and total += 0.9 * (tile 2), board[idx] = 2 and total += 0.1 * (tile 4),
\* board[idx] = 0; the total and the board of the node after the iteration
chanceStep(l, b, depth, size, pick, cell, total) ==
  LET withTwo  == [b EXCEPT ![cell] = 1]
      withFour == [withTwo EXCEPT ![cell] = 2]
      restored == [withFour EXCEPT ![cell] = 0]
  IN  Only({[total |-> valuePlus(valuePlus(total, valueTimes(9, 10, two)),
                                 valueTimes(1, 10, four)),
             board |-> restored] :
              two  \in {playerNode(l, withTwo, depth, size, pick)},
              four \in {playerNode(l, withFour, depth, size, pick)}})

\* the loop of _chanceNode over the cells
chanceLoop(l, b, depth, size, pick, cells, k, total) ==
  IF k > Len(cells) THEN [total |-> total, board |-> b]
  ELSE Only({chanceLoop(l, step.board, depth, size, pick, cells, k + 1, step.total) :
               step \in {chanceStep(l, b, depth, size, pick, cells[k], total)}})

\* ExpectimaxPlayer._chanceNode: the value it returns, with the cells it
\* expanded and the total it divided (none when it returns an evaluation)
chanceExpansion(l, b, depth, size, pick) ==
  IF depth <= 0
    THEN [value |-> evaluated(evaluate(l, b)), cells |-> << >>, total |-> whole(0)]
  ELSE Only({IF Len(empty) = 0
               THEN [value |-> evaluated(evaluate(l, b)), cells |-> << >>,
                     total |-> whole(0)]
               ELSE Only({[value |-> valueTimes(1, Len(cells), sum.total),
                           cells |-> cells, total |-> sum.total] :
                            sum \in {chanceLoop(l, b, depth, size, pick,
                                                expandedCells(empty, pick), 1,
                                                whole(0))},
                            cells \in {expandedCells(empty, pick)}}) :
               empty \in {emptyList(b, 0, size)}})

\* ExpectimaxPlayer._chanceNode
chanceNode(l, b, depth, size, pick) ==
  chanceExpansion(l, b, depth, size, pick).value

\* one iteration of the loop of _playerNode, for direction dir: bestValue,
\* anyMoved and the board of the node after the iteration
playerStep(l, b, depth, size, pick, dir, bestValue, anyMoved) ==
  Only({IF ~result.moved
          THEN [bestValue |-> bestValue, anyMoved |-> anyMoved,
                board |-> result.board]
          ELSE Only({[bestValue |-> IF valueGreater(value, bestValue) THEN value
                                    ELSE bestValue,
                      anyMoved |-> TRUE, board |-> result.board] :
                       value \in {valuePlus(whole(result.reward),
                                    chanceNode(l, result.after, depth - 1, size,
                                               pick))}}) :
          result \in {exploreMove(b, dir, size)}})

\* the loop of _playerNode
playerLoop(l, b, depth, size, pick, dir, bestValue, anyMoved) ==
  IF dir >= 4 THEN [bestValue |-> bestValue, anyMoved |-> anyMoved, board |-> b]
  ELSE Only({playerLoop(l, step.board, depth, size, pick, dir + 1,
                        step.bestValue, step.anyMoved) :
               step \in {playerStep(l, b, depth, size, pick, dir, bestValue,
                                    anyMoved)}})

\* ExpectimaxPlayer._playerNode
playerNode(l, b, depth, size, pick) ==
  Only({IF r.anyMoved THEN r.bestValue ELSE evaluated(evaluate(l, r.board)) :
          r \in {playerLoop(l, b, depth, size, pick, 0, MinusInfinity, FALSE)}})

\* one iteration of the loop of ExpectimaxPlayer.selectMove, for direction
\* dir: [bestDir, bestValue] and the caller's board after the iteration
expectimaxStep(l, b, depth, size, pick, dir, best) ==
  Only({IF ~result.moved THEN [best |-> best, board |-> result.board]
        ELSE Only({IF valueGreater(value, best.bestValue)
                     THEN [best |-> [bestDir |-> dir, bestValue |-> value],
                           board |-> result.board]
                     ELSE [best |-> best, board |-> result.board] :
                   value \in {valuePlus(whole(result.reward),
                                chanceNode(l, result.after, depth - 1, size,
                                           pick))}}) :
          result \in {exploreMove(b, dir, size)}})

\* the loop of ExpectimaxPlayer.selectMove
RECURSIVE expectimaxLoop(_, _, _, _, _, _, _)
expectimaxLoop(l, b, depth, size, pick, dir, best) ==
  IF dir >= 4
    THEN [bestDir |-> best.bestDir, bestValue |-> best.bestValue, board |-> b]
  ELSE Only({expectimaxLoop(l, step.board, depth, size, pick, dir + 1, step.best) :
               step \in {expectimaxStep(l, b, depth, size, pick, dir, best)}})

\* a player whose constructor takes the depth 0 for a missing depth
expectimaxDefaultDepth(l, b, depth, size, pick) ==
  expectimaxLoop(l, b, IF depth = 0 THEN 2 ELSE depth, size, pick, 0,
                 [bestDir |-> -1, bestValue |-> MinusInfinity])

\* ExpectimaxPlayer.selectMove of a player constructed with the given depth:
\* bestDir, which it returns, bestValue and the caller's board at the return
expectimaxSelect(l, b, depth, size, pick) ==
  expectimaxLoop(l, b, depth, size, pick, 0,
                 [bestDir |-> -1, bestValue |-> MinusInfinity])

\* what ExpectimaxPlayer.selectMove returns
expectimaxSelectMove(l, b, depth, size, pick) ==
  expectimaxSelect(l, b, depth, size, pick).bestDir

(***************************************************************************)
(* Episodes (src/training/trainer4x4.js, playEpisode and evaluateNetwork). *)
(*                                                                         *)
(* Math.random() returns a number of sixteenths, read from a cyclic stream *)
(* that the run of the program fixes.  The learning rate is a whole        *)
(* number, so that learningRate * delta is a whole number of weight units. *)
(***************************************************************************)
NoBoard == << >>

\* no episode is being played
NoEpisode == [pc |-> "none"]

\* an addRandomTile that draws its cell among all the cells of the board
addRandomTileAnyCell(b, u1, u2, size) ==
  [board |-> [b EXCEPT ![(u1 * TOTAL(size)) \div RandomUnit] =
                         IF 10 * u2 < 9 * RandomUnit THEN 1 ELSE 2],
   ok |-> TRUE, used |-> 2]

\* addRandomTile(board) when Math.random() returns u1, then u2: the board
\* after the call, the result, and the number of calls of Math.random()
addRandomTileDrawn(b, u1, u2, size) ==
  LET empty == emptyList(b, 0, size)
  IN  IF Len(empty) = 0
        THEN [board |-> b, ok |-> FALSE, used |-> 0]
        ELSE [board |-> [b EXCEPT ![empty[((u1 * Len(empty)) \div RandomUnit) + 1]] =
                                   IF 10 * u2 < 9 * RandomUnit THEN 1 ELSE 2],
              ok |-> TRUE, used |-> 2]

\* createBoard(): a zero board with two random tiles
createBoard(stream, pos, size) ==
  LET zero   == [i \in 0..(TOTAL(size) - 1) |-> 0]
      first  == addRandomTileDrawn(zero, random(stream, pos),
                                   random(stream, pos + 1), size)
      second == addRandomTileDrawn(first.board, random(stream, pos + first.used),
                                   random(stream, pos + first.used + 1), size)
  IN  [board |-> second.board, pos |-> pos + first.used + second.used]

\* -x on numbers
numNeg(x) == Only({[nan |-> a.nan, v |-> 0 - a.v] : a \in {x}})

\* a TD error that leaves out the reward
tdDeltaNoReward(l, prevReward, bestAfterstate, prevAfterstate) ==
  numAdd(evaluate(l, bestAfterstate), numNeg(evaluate(l, prevAfterstate)))

\* prevReward + network.evaluate(bestAfterstate) - network.evaluate(prevAfterstate)
tdDelta(l, prevReward, bestAfterstate, prevAfterstate) ==
  numAdd(numAdd([nan |-> FALSE, v |-> prevReward], evaluate(l, bestAfterstate)),
         numNeg(evaluate(l, prevAfterstate)))

\* a terminal error of the opposite sign
terminalDeltaOpposite(l, prevAfterstate) ==
  numAdd([nan |-> FALSE, v |-> 0], evaluate(l, prevAfterstate))

\* 0 - network.evaluate(prevAfterstate)
terminalDelta(l, prevAfterstate) ==
  numAdd([nan |-> FALSE, v |-> 0], numNeg(evaluate(l, prevAfterstate)))

\* no update call has been made
NoCall == [at |-> "none"]

\* the frame of playEpisode after createBoard: its arguments and locals, its
\* position pc, the number of update calls made and the last of them
episodeFrame(learningRate, stream, start) ==
  [pc |-> "select", fn |-> "playEpisode", learningRate |-> learningRate,
   stream |-> stream, pos |-> start.pos % Len(stream),
   score |-> 0, steps |-> 0, prevAfterstate |-> NoBoard, prevReward |-> 0,
   best |-> NoBest, calls |-> 0, last |-> NoCall]

\* a step that makes no update call; nan tells that the delta of the step is
\* NaN, which no weight of the model can hold
noUpdateStep(l, e) == [lut |-> l, calls |-> e.calls, last |-> e.last, nan |-> FALSE]

\* the TD update of playEpisode, for the previous afterstate
tdStep(l, e) ==
  IF e.prevAfterstate # NoBoard
    THEN Only({IF delta.nan
                 THEN [lut |-> l, calls |-> e.calls, last |-> e.last, nan |-> TRUE]
                 ELSE Only({[lut |-> update(l, e.prevAfterstate, updateDelta),
                             calls |-> e.calls + 1,
                             last |-> [at |-> "td", board |-> e.prevAfterstate,
                                       delta |-> updateDelta],
                             nan |-> FALSE] :
                              updateDelta \in {e.learningRate * delta.v}}) :
                 delta \in {tdDelta(l, e.prevReward, e.best.bestAfterstate,
                                    e.prevAfterstate)}})
    ELSE noUpdateStep(l, e)

\* an end of the episode that makes no update call
terminalStepSkipped(l, e) ==
  [lut |-> l, calls |-> e.calls, last |-> e.last, nan |-> FALSE]

\* the terminal update of playEpisode
terminalStep(l, e) ==
  IF e.prevAfterstate # NoBoard
    THEN Only({IF delta.nan
                 THEN [lut |-> l, calls |-> e.calls, last |-> e.last, nan |-> TRUE]
                 ELSE Only({[lut |-> update(l, e.prevAfterstate, updateDelta),
                             calls |-> e.calls + 1,
                             last |-> [at |-> "terminal", board |-> e.prevAfterstate,
                                       delta |-> updateDelta],
                             nan |-> FALSE] :
                              updateDelta \in {e.learningRate * delta.v}}) :
                 delta \in {terminalDelta(l, e.prevAfterstate)}})
    ELSE noUpdateStep(l, e)

\* Math.fround(w + num / den) for a float32 w of at least 2^23 weight units in
\* magnitude, where the float32 numbers are whole numbers of units, and
\* den > 0: the nearest float32, ties to the even significand.  floorSum and
\* frac are the floor and the rest of the sum, q the spacing of the float32
\* numbers at its magnitude.
froundSum(w, num, den) ==
  LET floorSum == w + (num \div den)
      frac  == num % den
      mag   == IF floorSum >= 0 THEN floorSum
               ELSE IF frac > 0 THEN (0 - floorSum) - 1 ELSE 0 - floorSum
      q     == IF mag < 16777216 THEN 1 ELSE floorPow2(mag, 1) \div 8388608
      lower == (floorSum \div q) * q
      rest  == (floorSum - lower) * den + frac
      up    == \/ 2 * rest > q * den
               \/ (2 * rest = q * den /\ (lower \div q) % 2 = 1)
  IN  IF up THEN lower + q ELSE lower

\* lut[i] += delta for a delta of num / den weight units
addAssignFraction(l, len, i, num, den) ==
  LET old == f32Get(l, len, i)
  IN  IF old.nan THEN l ELSE f32Set(l, len, i, froundSum(old.v, num, den))

\* the inner loop of update for a delta of num / den weight units
RECURSIVE updateVariantsFraction(_, _, _, _, _, _)
updateVariantsFraction(lp, b, num, den, p, j) ==
  IF j > Len(patterns[p].variants) THEN lp
  ELSE Only({updateVariantsFraction(next, b, num, den, p, j + 1) :
               next \in {addAssignFraction(lp, lutSize(patterns[p].tupleLen),
                           index(b, patterns[p].variants[j]), num, den)}})

\* NTupleNetwork.update for a delta of num / den weight units
updateFraction(l, b, num, den) ==
  [p \in 1..Len(patterns) |-> updateVariantsFraction(l[p], b, num, den, p, 1)]

\* the terminal update of playEpisode for the learning rate rate.n / rate.d:
\* delta = 0 - network.evaluate(prevAfterstate), and
\* network.update(prevAfterstate, learningRate * delta)
terminalUpdate(l, prevAfterstate, rate) ==
  Only({updateFraction(l, prevAfterstate, rate.n * delta.v, rate.d) :
          delta \in {terminalDelta(l, prevAfterstate)}})

\* an iteration of an evaluation game that learns from the move it selects
evalIterationLearning(l, b, stream, pos, size) ==
  LET best == bestMove(l, b, size)
  IN  IF best.bestDir = -1
        THEN [lut |-> l, board |-> b, reward |-> 0, pos |-> pos, over |-> TRUE]
        ELSE LET result == move(b, best.bestDir, size)
                 tile   == addRandomTileDrawn(result.board, random(stream, pos),
                                              random(stream, pos + 1), size)
             IN  [lut |-> update(l, best.bestAfterstate, 1), board |-> tile.board,
                  reward |-> result.reward,
                  pos |-> (pos + tile.used) % Len(stream),
                  over |-> ~canMove(tile.board, size)]

\* one iteration of the loop of playEvalGame on board b: the selection, the
\* move, the random tile; over tells that the loop is left.  The result
\* holds the network after the iteration.
evalIteration(l, b, stream, pos, size) ==
  LET best == bestMove(l, b, size)
  IN  IF best.bestDir = -1
        THEN [lut |-> l, board |-> b, reward |-> 0, pos |-> pos, over |-> TRUE]
        ELSE LET result == move(b, best.bestDir, size)
                 tile   == addRandomTileDrawn(result.board, random(stream, pos),
                                              random(stream, pos + 1), size)
             IN  [lut |-> l, board |-> tile.board, reward |-> result.reward,
                  pos |-> (pos + tile.used) % Len(stream),
                  over |-> ~canMove(tile.board, size)]

\* scores.sort((a, b) => a - b)
RECURSIVE sortAscending(_)
sortAscending(scores) ==
  IF Len(scores) <= 1 THEN scores
  ELSE LET rest == sortAscending(Tail(scores))
           k    == Cardinality({j \in 1..Len(rest) : rest[j] < Head(scores)})
       IN  SubSeq(rest, 1, k) \o <<Head(scores)>> \o SubSeq(rest, k + 1, Len(rest))

\* the frame of evaluateNetwork before its first game; start is the network
\* at the call
evaluationFrame(numGames, stream, l) ==
  [pc |-> "game", numGames |-> numGames, i |-> 0, stream |-> stream, pos |-> 0,
   score |-> 0, scores |-> << >>, maxTiles |-> << >>, start |-> l]

(***************************************************************************)
(* Inputs of the engine specifications.                                    *)
(***************************************************************************)
\* rows of actual tile values the input grids are built from
InputRows(size) ==
  IF size = 4
    THEN { <<0, 0, 0, 0>>, <<2, 2, 2, 2>>, <<2, 4, 2, 4>>, <<4, 2, 4, 2>>,
           <<0, 32768, 32768, 32768>> }
    ELSE { <<0, 0, 2, 2, 2>>, <<2, 4, 2, 4, 2>>, <<4, 2, 4, 2, 4>> }

InputGrids(size) == [1..size -> InputRows(size)]

InputBoards(size) == {fromGrid(g, size) : g \in InputGrids(size)}

InputLines(size) == [0..(size - 1) -> 0..MaxLineCode]

(***************************************************************************)
(* The engine specification: one input board, then calls of move,         *)
(* addRandomTile and canMove on it.                                        *)
(***************************************************************************)
EngineInit ==
  /\ side \in Sizes
  /\ board \in InputBoards(side)
  /\ line = NoBoard
  /\ lut = NoBoard
  /\ res = [op |-> "init"]
  /\ prev = [op |-> "init"]
  /\ ops = 0
  /\ ep = NoEpisode

Move(dir) ==
  /\ ops < MaxEngineOps
  /\ LET m == move(board, dir, side)
     IN  /\ board' = m.board
         /\ res' = [op |-> "move", dir |-> dir, before |-> board,
                    moved |-> m.moved, reward |-> m.reward]
  /\ ops' = ops + 1
  /\ UNCHANGED <<ep, side, line, lut, prev>>

AddRandomTile ==
  /\ ops < MaxEngineOps
  /\ \E o \in addRandomTile(board, side) :
       /\ board' = o.board
       /\ res' = [op |-> "addRandomTile", before |-> board, ok |-> o.ok]
  /\ ops' = ops + 1
  /\ UNCHANGED <<ep, side, line, lut, prev>>

CanMove ==
  /\ ops < MaxEngineOps
  /\ res' = [op |-> "canMove", before |-> board, can |-> canMove(board, side)]
  /\ ops' = ops + 1
  /\ UNCHANGED <<ep, side, board, line, lut, prev>>

EngineNext ==
  \/ \E dir \in 0..3 : Move(dir)
  \/ AddRandomTile
  \/ CanMove

SpecEngine == EngineInit /\ [][EngineNext]_vars

(***************************************************************************)
(* The line specification: slideLine applied to every line of codes        *)
(* 0..MaxLineCode.                                                         *)
(***************************************************************************)
LineInit ==
  /\ side \in Sizes
  /\ board = NoBoard
  /\ line \in InputLines(side)
  /\ lut = NoBoard
  /\ res = [op |-> "init"]
  /\ prev = [op |-> "init"]
  /\ ops = 0
  /\ ep = NoEpisode

SlideLine ==
  /\ res.op = "init"
  /\ LET s == slideLine(line, side)
     IN  /\ line' = s.line
         /\ res' = [op |-> "slideLine", before |-> line, reward |-> s.reward]
  /\ ops' = ops + 1
  /\ UNCHANGED <<ep, side, board, lut, prev>>

LineNext == SlideLine

SpecLine == LineInit /\ [][LineNext]_vars

(***************************************************************************)
(* Inputs of the network specifications.                                   *)
(***************************************************************************)
EmptyBoard == fromGrid([r \in 1..4 |-> <<0, 0, 0, 0>>], 4)

\* all cells differ, but for the last
GenericBoard ==
  fromGrid(<< <<2, 4, 8, 16>>, <<32, 64, 128, 256>>,
              <<512, 1024, 2048, 4096>>, <<8192, 16384, 32768, 2>> >>, 4)

\* equal to its left-right mirror image
MirrorBoard ==
  fromGrid(<< <<2, 4, 4, 2>>, <<0, 8, 8, 0>>, <<0, 0, 0, 0>>, <<16, 0, 0, 16>> >>, 4)

\* a board of the 5x5 engine, and a board of 9 cells
Board25 == fromGrid([r \in 1..5 |-> <<2, 4, 2, 4, 2>>], 5)

Board9 == fromGrid([r \in 1..3 |-> <<2, 4, 8>>], 3)

GoodBoards == {EmptyBoard, GenericBoard, MirrorBoard}

NetBoards == GoodBoards \cup {Board25, Board9}

\* deltas, in weight units; 16777216 = 2^24
Deltas == {0, 1, 16777216}

\* the weight every stored LUT holds at its first element (the last one
\* holds one more)
FileWeight == 3

\* the positions a file may be wrong at; 0 is nowhere
FilePositions == {0, 1, 2, Len(patterns)}

storedLut(len) == [len |-> len, vals |-> (0 :> FileWeight) @@ ((len - 1) :> (FileWeight + 1))]

shortLut == [len |-> 1, vals |-> (0 :> FileWeight)]

\* a text file that declares a wrong lutSize at badAt and holds a short lut
\* array at shortAt
textFile(badAt, shortAt) ==
  [numPatterns |-> Len(patterns),
   patterns |->
     [i \in 1..Len(patterns) |->
        LET declared == IF i = badAt THEN lutSize(patterns[i].tupleLen - 1)
                        ELSE lutSize(patterns[i].tupleLen)
        IN  [tupleLen |-> patterns[i].tupleLen,
             lutSize  |-> declared,
             lut      |-> IF i = shortAt THEN shortLut ELSE storedLut(declared)]]]

\* a text file of a catalog with fewer patterns
textFileFewer ==
  [numPatterns |-> Len(patterns) - 1,
   patterns |-> SubSeq(textFile(0, 0).patterns, 1, Len(patterns) - 1)]

TextFiles ==
  {textFile(b, s) : b \in FilePositions, s \in FilePositions} \cup {textFileFewer}

\* a binary file that declares a wrong lutLen at badAt and ends inside the
\* LUT at shortAt
binaryFile(badAt, shortAt) ==
  [numPatterns |-> Len(patterns),
   patterns |->
     [i \in 1..(IF shortAt = 0 THEN Len(patterns) ELSE shortAt) |->
        LET declared == IF i = badAt THEN lutSize(patterns[i].tupleLen - 1)
                        ELSE lutSize(patterns[i].tupleLen)
        IN  [tupleLen |-> patterns[i].tupleLen,
             lutLen   |-> declared,
             floats   |-> IF i = shortAt THEN shortLut ELSE storedLut(declared)]]]

binaryFileFewer ==
  [numPatterns |-> Len(patterns) - 1,
   patterns |-> SubSeq(binaryFile(0, 0).patterns, 1, Len(patterns) - 1)]

BinaryFiles ==
  {binaryFile(b, s) : b \in FilePositions, s \in FilePositions} \cup {binaryFileFewer}

WithinCap(l) ==
  \A p \in DOMAIN l : \A i \in DOMAIN l[p] : l[p][i] <= WeightCap /\ -l[p][i] <= WeightCap

(***************************************************************************)
(* The network specification: evaluate and update on a fresh network.      *)
(***************************************************************************)
NetInit ==
  /\ side = 4
  /\ board = NoBoard
  /\ line = NoBoard
  /\ lut = newLuts
  /\ res = [op |-> "init"]
  /\ prev = [op |-> "init"]
  /\ ops = 0
  /\ ep = NoEpisode

Evaluate(b) ==
  /\ ops < MaxNetOps
  /\ board' = b
  /\ res' = [op |-> "evaluate", board |-> b, lutBefore |-> lut,
             value |-> evaluate(lut, b), outcome |-> "ok"]
  /\ prev' = res
  /\ ops' = ops + 1
  /\ UNCHANGED <<ep, side, line, lut>>

Update(b, delta) ==
  /\ ops < MaxNetOps
  /\ WithinCap(update(lut, b, delta))
  /\ lut' = update(lut, b, delta)
  /\ board' = b
  /\ res' = [op |-> "update", board |-> b, delta |-> delta, lutBefore |-> lut,
             outcome |-> "ok"]
  /\ prev' = res
  /\ ops' = ops + 1
  /\ UNCHANGED <<ep, side, line>>

NetNext ==
  \/ \E b \in NetBoards : Evaluate(b)
  \/ \E b \in NetBoards, delta \in Deltas : Update(b, delta)

SpecNet == NetInit /\ [][NetNext]_vars

(***************************************************************************)
(* The load specification: weight files read into a network.               *)
(***************************************************************************)
Train ==
  /\ ops < MaxLoadOps
  /\ lut' = update(lut, GenericBoard, 1)
  /\ res' = [op |-> "update", board |-> GenericBoard, delta |-> 1,
             lutBefore |-> lut, outcome |-> "ok"]
  /\ ops' = ops + 1
  /\ UNCHANGED <<ep, side, board, line, prev>>

Load(data) ==
  /\ ops < MaxLoadOps
  /\ LET r == load(lut, data)
     IN  /\ lut' = r.lut
         /\ res' = [op |-> "load", file |-> data, lutBefore |-> lut,
                    outcome |-> r.outcome]
  /\ ops' = ops + 1
  /\ UNCHANGED <<ep, side, board, line, prev>>

LoadBinary(file) ==
  /\ ops < MaxLoadOps
  /\ LET r == loadBinary(lut, file)
     IN  /\ lut' = r.lut
         /\ res' = [op |-> "loadBinary", file |-> file, lutBefore |-> lut,
                    outcome |-> r.outcome]
  /\ ops' = ops + 1
  /\ UNCHANGED <<ep, side, board, line, prev>>

LoadNext ==
  \/ Train
  \/ \E data \in TextFiles : Load(data)
  \/ \E file \in BinaryFiles : LoadBinary(file)

SpecLoad == NetInit /\ [][LoadNext]_vars

(***************************************************************************)
(* The save specification: a network is updated, saved, and the file is    *)
(* loaded into a new network of the same catalog, which lut then denotes.  *)
(***************************************************************************)
SaveUpdate(b, delta) ==
  /\ ops < MaxSaveOps
  /\ WithinCap(update(lut, b, delta))
  /\ lut' = update(lut, b, delta)
  /\ res' = [op |-> "update", board |-> b, delta |-> delta, lutBefore |-> lut,
             outcome |-> "ok"]
  /\ ops' = ops + 1
  /\ UNCHANGED <<ep, side, board, line, prev>>

\* update with a delta that is not finite, as a diverged TD error is
UpdateInfinite(b) ==
  /\ ops < MaxSaveOps
  /\ lut' = update(lut, b, Infinity)
  /\ res' = [op |-> "update", board |-> b, delta |-> Infinity,
             lutBefore |-> lut, outcome |-> "ok"]
  /\ ops' = ops + 1
  /\ UNCHANGED <<ep, side, board, line, prev>>

SaveLoad ==
  /\ ops < MaxSaveOps
  /\ LET r == load(newLuts, save(lut))
     IN  /\ lut' = r.lut
         /\ res' = [op |-> "saveLoad", lutBefore |-> lut, outcome |-> r.outcome]
  /\ ops' = ops + 1
  /\ UNCHANGED <<ep, side, board, line, prev>>

SaveLoadBinary ==
  /\ ops < MaxSaveOps
  /\ LET r == loadBinary(newLuts, saveBinary(lut))
     IN  /\ lut' = r.lut
         /\ res' = [op |-> "saveLoadBinary", lutBefore |-> lut,
                    outcome |-> r.outcome]
  /\ ops' = ops + 1
  /\ UNCHANGED <<ep, side, board, line, prev>>

SaveNext ==
  \/ \E b \in GoodBoards, delta \in Deltas : SaveUpdate(b, delta)
  \/ \E b \in GoodBoards : UpdateInfinite(b)
  \/ SaveLoad
  \/ SaveLoadBinary

SpecSave == NetInit /\ [][SaveNext]_vars

(***************************************************************************)
(* The catalog specification: the symmetry maps are built, cell lists are  *)
(* expanded to their variants, and the 4x4 network reports its stats.      *)
(***************************************************************************)
\* the reduce of the constructor: the number of variants of all patterns
RECURSIVE totalVariantsFrom(_, _)
totalVariantsFrom(p, s) ==
  IF p > Len(patterns) THEN s
  ELSE totalVariantsFrom(p + 1, s + Len(patterns[p].variants))

RECURSIVE totalEntriesFrom(_, _)
totalEntriesFrom(p, s) ==
  IF p > Len(patterns) THEN s
  ELSE totalEntriesFrom(p + 1, s + lutSize(patterns[p].tupleLen))

\* NTupleNetwork.stats; totalMB10 is totalMB in tenths, as toFixed(1) rounds
stats ==
  [numBasePatterns |-> Len(patterns),
   totalVariants   |-> totalVariantsFrom(1, 0),
   totalEntries    |-> totalEntriesFrom(1, 0),
   totalMB10       |-> (totalEntriesFrom(1, 0) * 4 * 10 + 524288) \div 1048576]

\* the cell lists of a board of the given side that are no longer than n
RECURSIVE CellLists(_, _)
CellLists(size, n) ==
  IF n = 0 THEN {<< >>}
  ELSE LET shorter == CellLists(size, n - 1)
       IN  shorter \cup {Append(q, c) : q \in shorter, c \in 0..(size * size - 1)}

CatalogPatterns(size) == {BASE_PATTERNS(size)[p] : p \in 1..Len(BASE_PATTERNS(size))}

SymPatterns(size) == CatalogPatterns(size) \cup (CellLists(size, MaxTupleLen) \ {<< >>})

SymInit ==
  /\ side = 4
  /\ board = NoBoard
  /\ line = NoBoard
  /\ lut = NoBoard
  /\ res = [op |-> "init"]
  /\ prev = [op |-> "init"]
  /\ ops = 0
  /\ ep = NoEpisode

\* the module builds its eight maps
BuildMaps(size) ==
  /\ res.op = "init"
  /\ side' = size
  /\ res' = [op |-> "buildMaps", maps |-> SYMMETRY_MAPS(size)]
  /\ UNCHANGED <<ep, board, line, lut, prev, ops>>

AllSymmetries(size, pattern) ==
  /\ res.op = "init"
  /\ side' = size
  /\ res' = [op |-> "allSymmetries", pattern |-> pattern,
             variants |-> allSymmetries(pattern, size)]
  /\ UNCHANGED <<ep, board, line, lut, prev, ops>>

\* the loop of the network constructor over the catalog of the given side
Expand(size) ==
  /\ res.op = "init"
  /\ side' = size
  /\ res' = [op |-> "expand",
             variants |-> [p \in 1..Len(BASE_PATTERNS(size)) |->
                             allSymmetries(BASE_PATTERNS(size)[p], size)]]
  /\ UNCHANGED <<ep, board, line, lut, prev, ops>>

Stats ==
  /\ res.op = "init"
  /\ side' = 4
  /\ res' = [op |-> "stats", stats |-> stats]
  /\ UNCHANGED <<ep, board, line, lut, prev, ops>>

SymNext ==
  \/ \E size \in Sizes : BuildMaps(size)
  \/ \E size \in Sizes : \E pattern \in SymPatterns(size) : AllSymmetries(size, pattern)
  \/ \E size \in Sizes : Expand(size)
  \/ Stats

SpecSym == SymInit /\ [][SymNext]_vars

(***************************************************************************)
(* The player specification: a network is updated on afterstates, and the  *)
(* players select moves on boards with it.                                 *)
(***************************************************************************)
\* no direction changes the board
StuckBoard ==
  fromGrid(<< <<2, 4, 2, 4>>, <<4, 2, 4, 2>>, <<2, 4, 2, 4>>, <<4, 2, 4, 2>> >>, 4)

\* only right and left change the board, with the same reward
PairBoard ==
  fromGrid(<< <<2, 4, 4, 2>>, <<4, 8, 2, 4>>, <<2, 4, 8, 2>>, <<4, 2, 4, 8>> >>, 4)

\* two tiles, as createBoard returns
StartBoard ==
  fromGrid(<< <<0, 0, 0, 0>>, <<0, 2, 0, 0>>, <<0, 0, 0, 4>>, <<0, 0, 0, 0>> >>, 4)

\* every direction changes the board, with different rewards
MixedBoard ==
  fromGrid(<< <<4, 4, 8, 8>>, <<2, 0, 2, 16>>, <<2, 16, 4, 32>>, <<0, 64, 128, 32>> >>, 4)

\* up changes nothing
NoUpBoard ==
  fromGrid(<< <<2, 4, 8, 16>>, <<4, 2, 0, 0>>, <<2, 0, 0, 0>>, <<0, 0, 0, 0>> >>, 4)

PlayerBoards == {StuckBoard, PairBoard, StartBoard, MixedBoard, NoUpBoard}

\* the boards the network is updated on: afterstates of the player boards
TrainBoards == {move(MixedBoard, 1, 4).board, move(PairBoard, 3, 4).board}

\* deltas that outweigh, and that do not outweigh, a difference of rewards
PlayerDeltas == {-1, 1}

\* the search depths an ExpectimaxPlayer is constructed with
Depths == {0, 1, 2}

PlayerTrain(b, delta) ==
  /\ ops < MaxPlayerOps - 1
  /\ lut' = update(lut, b, delta)
  /\ res' = [op |-> "update", board |-> b, delta |-> delta, lutBefore |-> lut,
             outcome |-> "ok"]
  /\ ops' = ops + 1
  /\ UNCHANGED <<ep, side, board, line, prev>>

GreedySelect(b) ==
  /\ ops < MaxPlayerOps
  /\ \E best \in {bestMove(lut, b, side)} :
       /\ board' = best.board
       /\ res' = [op |-> "greedy", board |-> b, lutBefore |-> lut,
                  dir |-> best.bestDir]
  /\ ops' = MaxPlayerOps
  /\ UNCHANGED <<ep, side, line, lut, prev>>

ExpectimaxSelect(b, depth, pick) ==
  /\ ops < MaxPlayerOps
  /\ \E best \in {expectimaxSelect(lut, b, depth, side, pick)} :
       /\ board' = best.board
       /\ res' = [op |-> "expectimax", board |-> b, lutBefore |-> lut,
                  depth |-> depth, pick |-> pick, dir |-> best.bestDir,
                  value |-> best.bestValue]
  /\ ops' = MaxPlayerOps
  /\ UNCHANGED <<ep, side, line, lut, prev>>

\* moveClone(board, dir) of the engine
MoveClone(b, dir) ==
  /\ ops < MaxPlayerOps
  /\ board' = moveCloneArgument(b, dir, side)
  /\ \E result \in {moveClone(b, dir, side)} :
       res' = [op |-> "moveClone", board |-> b, lutBefore |-> lut, dir |-> dir,
               after |-> result.board, moved |-> result.moved,
               reward |-> result.reward]
  /\ ops' = MaxPlayerOps
  /\ UNCHANGED <<ep, side, line, lut, prev>>

\* the search depths a chance node is entered with
ChanceDepths == {0, 1}

\* _chanceNode(board, depth) of an ExpectimaxPlayer
ChanceNode(b, depth, pick) ==
  /\ ops < MaxPlayerOps
  /\ \E node \in {chanceExpansion(lut, b, depth, side, pick)} :
       res' = [op |-> "chance", board |-> b, lutBefore |-> lut, depth |-> depth,
               pick |-> pick, cells |-> node.cells, total |-> node.total,
               value |-> node.value]
  /\ board' = b
  /\ ops' = MaxPlayerOps
  /\ UNCHANGED <<ep, side, line, lut, prev>>

PlayerNext ==
  \/ \E b \in TrainBoards, delta \in PlayerDeltas : PlayerTrain(b, delta)
  \/ \E b \in PlayerBoards, depth \in ChanceDepths, pick \in Picks :
       ChanceNode(b, depth, pick)
  \/ \E b \in PlayerBoards : GreedySelect(b)
  \/ \E b \in PlayerBoards, depth \in Depths, pick \in Picks :
       ExpectimaxSelect(b, depth, pick)
  \/ \E b \in PlayerBoards, dir \in 0..3 : MoveClone(b, dir)

SpecPlayer == NetInit /\ [][PlayerNext]_vars

(***************************************************************************)
(* The episode specification: playEpisode on a fresh network, one action   *)
(* per position of its loop.                                               *)
(***************************************************************************)
\* what Math.random() returns during a run, in sixteenths, cyclically
Streams == {<<5, 15, 15>>, <<0, 11, 15>>}

\* the learning rates playEpisode is called with
LearningRates == {0, 1}

\* the largest weight an episode is followed to, in weight units
EpisodeWeightCap == 8388608

WithinEpisodeCap(l) ==
  \A p \in DOMAIN l : \A i \in DOMAIN l[p] :
    l[p][i] <= EpisodeWeightCap /\ -l[p][i] <= EpisodeWeightCap

\* playEpisode(network, learningRate) up to the loop: createBoard()
PlayEpisode(learningRate, stream) ==
  /\ ep.pc = "none"
  /\ LET start == createBoard(stream, 0, side)
     IN  /\ board' = start.board
         /\ ep' = episodeFrame(learningRate, stream, start)
  /\ res' = [op |-> "createBoard"]
  /\ UNCHANGED <<side, line, lut, prev, ops>>

\* the selection loop, and the break when no direction moves
SelectMove ==
  /\ ep.pc = "select"
  /\ \E best \in {bestMove(lut, board, side)} :
         ep' = [ep EXCEPT !.best = best,
                          !.pc = IF best.bestDir = -1 THEN "terminal" ELSE "td"]
  /\ UNCHANGED <<side, board, line, lut, res, prev, ops>>

\* the TD update for the previous afterstate, none on the first move
TdUpdate ==
  /\ ep.pc = "td"
  /\ \E step \in {tdStep(lut, ep)} :
         /\ ~step.nan
         /\ WithinEpisodeCap(step.lut)
         /\ lut' = step.lut
         /\ ep' = [ep EXCEPT !.calls = step.calls, !.last = step.last,
                             !.pc = "apply"]
  /\ UNCHANGED <<side, board, line, res, prev, ops>>

\* the afterstate recorded, the move applied to the board, a random tile
\* added, and the break when the game is over
ApplyMove ==
  /\ ep.pc = "apply"
  /\ LET moved == move(board, ep.best.bestDir, side)
         tile  == addRandomTileDrawn(moved.board, random(ep.stream, ep.pos),
                                     random(ep.stream, ep.pos + 1), side)
     IN  /\ board' = tile.board
         /\ ep' = [ep EXCEPT !.prevAfterstate = ep.best.bestAfterstate,
                             !.prevReward = ep.best.bestReward,
                             !.score = @ + ep.best.bestReward,
                             !.steps = @ + 1,
                             !.pos = (@ + tile.used) % Len(ep.stream),
                             !.pc = IF canMove(tile.board, side)
                                      THEN "select" ELSE "terminal"]
  /\ UNCHANGED <<side, line, lut, res, prev, ops>>

\* the terminal update, and the return of playEpisode
TerminalUpdate ==
  /\ ep.pc = "terminal"
  /\ \E step \in {terminalStep(lut, ep)} :
         /\ ~step.nan
         /\ WithinEpisodeCap(step.lut)
         /\ lut' = step.lut
         /\ ep' = [ep EXCEPT !.calls = step.calls, !.last = step.last,
                             !.pc = "done"]
  /\ res' = [op |-> "playEpisode", score |-> ep.score,
             maxTileLog2 |-> maxTile(board, side), steps |-> ep.steps]
  /\ UNCHANGED <<side, board, line, prev, ops>>

EpisodeNext ==
  \/ \E learningRate \in LearningRates, stream \in Streams :
       PlayEpisode(learningRate, stream)
  \/ SelectMove
  \/ TdUpdate
  \/ ApplyMove
  \/ TerminalUpdate

SpecEpisode == NetInit /\ [][EpisodeNext]_vars

\* playEpisode is sequential code: once called it runs its next step, so a
\* step that can be taken is taken
SpecEpisodeRuns == SpecEpisode /\ WF_vars(EpisodeNext)

(***************************************************************************)
(* The evaluation specification: a network is updated on afterstates of    *)
(* opening moves, then evaluateNetwork plays its games with it.            *)
(***************************************************************************)
MaxEvalOps == 1

\* the afterstates of the first move up of the games
EvalBoards ==
  {move(createBoard(stream, 0, 4).board, 0, 4).board : stream \in Streams}

\* a delta that turns the selection away from an afterstate
EvalDeltas == {-2}

\* the numbers of games evaluateNetwork is called with
NumGames == {0, 1, 2}

EvalTrain(b, delta) ==
  /\ ep.pc = "none"
  /\ ops < MaxEvalOps
  /\ lut' = update(lut, b, delta)
  /\ res' = [op |-> "update", board |-> b, delta |-> delta, lutBefore |-> lut,
             outcome |-> "ok"]
  /\ ops' = ops + 1
  /\ UNCHANGED <<ep, side, board, line, prev>>

\* evaluateNetwork(network, numGames) up to its loop
EvaluateNetwork(numGames, stream) ==
  /\ ep.pc = "none"
  /\ ep' = evaluationFrame(numGames, stream, lut)
  /\ res' = [op |-> "evaluateNetwork"]
  /\ UNCHANGED <<side, board, line, lut, prev, ops>>

\* playEvalGame up to its loop: createBoard()
PlayEvalGame ==
  /\ ep.pc = "game"
  /\ ep.i < ep.numGames
  /\ LET start == createBoard(ep.stream, ep.pos, side)
     IN  /\ board' = start.board
         /\ ep' = [ep EXCEPT !.pc = "loop", !.score = 0,
                             !.pos = start.pos % Len(ep.stream)]
  /\ UNCHANGED <<side, line, lut, res, prev, ops>>

\* one iteration of the loop of playEvalGame; when the loop is left, the
\* game returns and evaluateNetwork pushes its score and its largest tile
EvalMove ==
  /\ ep.pc = "loop"
  /\ \E it \in {evalIteration(lut, board, ep.stream, ep.pos, side)} :
         /\ lut' = it.lut
         /\ board' = it.board
         /\ ep' = IF it.over
                    THEN [ep EXCEPT !.pc = "game", !.i = @ + 1, !.pos = it.pos,
                                    !.score = @ + it.reward,
                                    !.scores = Append(@, ep.score + it.reward),
                                    !.maxTiles = Append(@, maxTile(it.board, side))]
                    ELSE [ep EXCEPT !.pos = it.pos, !.score = @ + it.reward]
  /\ UNCHANGED <<side, line, res, prev, ops>>

\* the return of evaluateNetwork, with the sorted scores
EvalReturn ==
  /\ ep.pc = "game"
  /\ ep.i >= ep.numGames
  /\ ep' = [ep EXCEPT !.pc = "returned"]
  /\ res' = [op |-> "evaluateNetwork", numGames |-> ep.numGames,
             scores |-> sortAscending(ep.scores), maxTiles |-> ep.maxTiles]
  /\ UNCHANGED <<side, board, line, lut, prev, ops>>

EvalNext ==
  \/ \E b \in EvalBoards, delta \in EvalDeltas : EvalTrain(b, delta)
  \/ \E numGames \in NumGames, stream \in Streams : EvaluateNetwork(numGames, stream)
  \/ PlayEvalGame
  \/ EvalMove
  \/ EvalReturn

SpecEval == NetInit /\ [][EvalNext]_vars

(***************************************************************************)
(* Episodes that end in the same terminal afterstate, at the learning      *)
(* rates of the trainers: the network is read from a weight file, and      *)
(* every episode makes its terminal update.                                *)
(***************************************************************************)
\* terminal updates made on one network
MaxTerminalOps == 12

\* the board before the last tile of a game appears in its corner: as it is,
\* and one that its transposition leaves unchanged
CornerAfterstate ==
  fromGrid(<< <<0, 4, 8, 16>>, <<32, 2, 4, 8>>, <<2, 64, 2, 4>>, <<8, 2, 128, 2>> >>, 4)

TransposedAfterstate ==
  fromGrid(<< <<0, 4, 2, 4>>, <<4, 2, 4, 2>>, <<2, 4, 2, 4>>, <<4, 2, 4, 2>> >>, 4)

TerminalAfterstates == {CornerAfterstate, TransposedAfterstate}

\* the learning rates of the 4x4 and of the 5x5 trainer: 0.001 and 0.0025
TrainerRates == {[n |-> 1, d |-> 1000], [n |-> 1, d |-> 400]}

\* the weights of the seven LUTs in a file, in weight units: of one sign,
\* and of both signs with a small sum
FileWeights ==
  {<<16777216, 16777216, 16777216, 16777216, 16777216, 16777216, 16777216>>,
   <<10000000, -10000000, 12000000, -12000000, 9000000, 9000000, -17999800>>,
   <<-40000000, 40000000, -20000000, 10000000, 10000100, -9000000, 9000100>>}

\* every weight is one the model holds exactly: at least 2^23 units in
\* magnitude, where the float32 numbers are whole numbers of units
OnFloatGrid(l) ==
  \A p \in 1..Len(l) : \A i \in DOMAIN l[p] : Abs(l[p][i]) >= 8388608

\* a network whose LUT p holds w[p] in every entry the board addresses
addressedWeights(b, w) ==
  [p \in 1..Len(patterns) |->
     [i \in {index(b, patterns[p].variants[j]) :
               j \in 1..Len(patterns[p].variants)} |-> w[p]]]

\* loadBinary of a file written from such a network
TerminalLoad(b, w, rate) ==
  /\ ep.pc = "none"
  /\ \E r \in {loadBinary(lut, saveBinary(addressedWeights(b, w)))} :
       /\ r.outcome = "ok"
       /\ lut' = r.lut
       /\ ep' = [pc |-> "ending", fn |-> "playEpisode", prevAfterstate |-> b,
                 learningRate |-> rate,
                 first |-> terminalDelta(r.lut, b).v]
  /\ res' = [op |-> "loadBinary"]
  /\ UNCHANGED <<side, board, line, prev, ops>>

\* an episode that ends in the afterstate: its terminal update
TerminalEpisode ==
  /\ ep.pc = "ending"
  /\ ops < MaxTerminalOps
  /\ \E next \in {terminalUpdate(lut, ep.prevAfterstate, ep.learningRate)} :
       /\ OnFloatGrid(next)
       /\ lut' = next
  /\ res' = [op |-> "terminal", lutBefore |-> lut]
  /\ ops' = ops + 1
  /\ UNCHANGED <<side, board, line, prev, ep>>

TerminalNext ==
  \/ \E b \in TerminalAfterstates, w \in FileWeights, rate \in TrainerRates :
       TerminalLoad(b, w, rate)
  \/ TerminalEpisode

SpecTerminal == NetInit /\ [][TerminalNext]_vars

(***************************************************************************)
(* The training specification: the loop of Trainer.train of trainer4x4.js  *)
(* over its episodes, from a Trainer just constructed.  The episode each   *)
(* iteration plays is the one of the episode specification; here only the  *)
(* score it returns is held, drawn from a set of scores, and the network's *)
(* tables are not held.  With the default intervals (evalInterval 5000,    *)
(* checkpointInterval 25000, lrDecayInterval 0) and fewer than 1000        *)
(* episodes, no iteration decays the rate, reports or saves a checkpoint.  *)
(***************************************************************************)
\* options.totalEpisodes of the Trainer
MaxTrainEpisodes == 203

\* the episodes at which a milestone GIF is recorded
gifMilestones == {0, 1000, 5000, 10000, 25000, 50000, 75000, 100000}

\* the scores playEpisode returns: sums of merge rewards
EpisodeScores == {0, 400, 420, 444, 1000}

\* the Trainer after its constructor, before the first iteration of train
TrainInit ==
  /\ side = 4
  /\ board = NoBoard
  /\ line = NoBoard
  /\ lut = << >>
  /\ res = [op |-> "init"]
  /\ prev = [op |-> "init"]
  /\ ops = 0
  /\ ep = [pc |-> "train", ep |-> 0, bestScore |-> 0, seen |-> {}]

\* the labels of the GIFs the 'best score' branch records: bestScore holds
\* the new score when the improvement over it is tested.  The product with
\* 1.1 is compared exactly: the double 1.1 is above 11/10, so for a whole
\* score below 2^53 the rounded product is above the score it is compared
\* with exactly when the exact one is.
bestGifs(episode, score, bestScore) ==
  IF episode > 100 /\ (episode % 100 = 0 \/ 10 * score > 11 * bestScore)
    THEN {"best"}
    ELSE {}

\* one iteration of the loop of train, its episode returning the score
TrainEpisode(score) ==
  /\ ep.pc = "train"
  /\ ep.ep < MaxTrainEpisodes
  /\ \E newBest \in {IF score > ep.bestScore THEN score ELSE ep.bestScore} :
       /\ ep' = [ep EXCEPT !.ep = ep.ep + 1,
                           !.bestScore = newBest,
                           !.seen = ep.seen \cup {score}]
       /\ res' = [op |-> "train", ep |-> ep.ep, score |-> score,
                  bestBefore |-> ep.bestScore,
                  gifs |-> (IF ep.ep \in gifMilestones THEN {"milestone"} ELSE {})
                             \cup (IF score > ep.bestScore
                                     THEN bestGifs(ep.ep, score, newBest)
                                     ELSE {})]
  /\ prev' = res
  /\ UNCHANGED <<side, board, line, lut, ops>>

TrainNext == \E score \in EpisodeScores : TrainEpisode(score)

SpecTrain == TrainInit /\ [][TrainNext]_vars

(***************************************************************************)
(* Reference definitions the engine claims are stated with.                *)
(***************************************************************************)
\* the non-empty tiles of a line, in order, as a sequence
NonZero(ln, size) ==
  SelectSeq([i \in 1..size |-> ln[i - 1]], LAMBDA x : x # 0)

\* merging a sequence of tiles from its head: equal neighbours pair off once
RECURSIVE RefMerge(_)
RefMerge(s) ==
  IF Len(s) < 2
    THEN [tiles |-> s, reward |-> 0]
    ELSE IF s[1] = s[2]
      THEN LET rest == RefMerge(SubSeq(s, 3, Len(s)))
           IN  [tiles |-> <<s[1] + 1>> \o rest.tiles,
                reward |-> 2 ^ (s[1] + 1) + rest.reward]
      ELSE LET rest == RefMerge(Tail(s))
           IN  [tiles |-> <<s[1]>> \o rest.tiles, reward |-> rest.reward]

RefSlide(ln, size) ==
  LET m == RefMerge(NonZero(ln, size))
  IN  [line |-> [j \in 0..(size - 1) |->
                   IF j < Len(m.tiles) THEN m.tiles[j + 1] ELSE 0],
       reward |-> m.reward]

\* the cell at row r, column c
Cell(b, r, c, size) == b[r * size + c]

\* line k of a board read from the edge the tiles slide to
RefLine(b, dir, k, size) ==
  [i \in 0..(size - 1) |->
     CASE dir = 0 -> Cell(b, i, k, size)
       [] dir = 1 -> Cell(b, k, size - 1 - i, size)
       [] dir = 2 -> Cell(b, size - 1 - i, k, size)
       [] dir = 3 -> Cell(b, k, i, size)]

RECURSIVE RefMoveReward(_, _, _, _)
RefMoveReward(b, dir, k, size) ==
  IF k >= size THEN 0
  ELSE RefSlide(RefLine(b, dir, k, size), size).reward
         + RefMoveReward(b, dir, k + 1, size)

\* cells i and j are horizontal or vertical neighbours
Adjacent(i, j, size) ==
  Abs((i \div size) - (j \div size)) + Abs((i % size) - (j % size)) = 1

RefCanMove(b, size) ==
  \/ \E i \in DOMAIN b : b[i] = 0
  \/ \E i, j \in DOMAIN b : Adjacent(i, j, size) /\ b[i] # 0 /\ b[i] = b[j]

Changed(b, before) == {i \in DOMAIN b : b[i] # before[i]}

(***************************************************************************)
(* Claims about the engine.                                                *)
(***************************************************************************)
\* C4: the reward move returns is the sum of the values 2^code of the tiles
\* its merges created; moved is true exactly when some cell of the board
\* differs after the call; when moved is false the reward is 0 and the board
\* is unchanged.
C4_MoveRewardAndFlag ==
  res.op = "move" =>
    /\ res.reward = RefMoveReward(res.before, res.dir, 0, side)
    /\ res.moved = (board # res.before)
    /\ (~res.moved => res.reward = 0 /\ board = res.before)

C4_Witness ==
  /\ res.op = "move"
  /\ res.moved
  /\ res.reward >= 8
  /\ Changed(board, res.before) # {}

\* C5: slideLine compacts the tiles toward index 0, merges equal neighbours
\* in one pass from index 0 with each tile merging at most once, and
\* compacts again: [2,2,0,0] gives [4,0,0,0] with reward 4, [2,2,2,2] gives
\* [4,4,0,0] with reward 8, and of three equal tiles the two nearest index 0
\* merge.
C5_SlideLine ==
  res.op = "slideLine" =>
    /\ line = RefSlide(res.before, side).line
    /\ res.reward = RefSlide(res.before, side).reward
    /\ (res.before = [i \in 0..3 |-> <<1, 1, 0, 0>>[i + 1]] =>
          line = [i \in 0..3 |-> <<2, 0, 0, 0>>[i + 1]] /\ res.reward = 4)
    /\ (res.before = [i \in 0..3 |-> 1] =>
          line = [i \in 0..3 |-> <<2, 2, 0, 0>>[i + 1]] /\ res.reward = 8)
    /\ \A a \in 1..MaxLineCode :
         NonZero(res.before, side) = <<a, a, a>> =>
           /\ line = [i \in 0..(side - 1) |->
                        IF i = 0 THEN a + 1 ELSE IF i = 1 THEN a ELSE 0]
           /\ res.reward = 2 ^ (a + 1)

C5_Witness ==
  /\ res.op = "slideLine"
  /\ side = 4
  /\ res.before = [i \in 0..3 |-> 1]
  /\ line = [i \in 0..3 |-> <<2, 2, 0, 0>>[i + 1]]
  /\ res.reward = 8

\* C6: canMove is true exactly when some cell is empty or two horizontally
\* or vertically adjacent cells hold equal non-zero codes, and it leaves the
\* board as it was.
C6_CanMove ==
  res.op = "canMove" =>
    /\ res.can = RefCanMove(res.before, side)
    /\ board = res.before

C6_Witness ==
  /\ res.op = "canMove"
  /\ ~res.can
  /\ \A i \in DOMAIN board : board[i] # 0

\* C7: addRandomTile on a board with an empty cell returns true and changes
\* exactly one cell, which was empty, to code 1 or 2; on a full board it
\* returns false and changes nothing.
C7_AddRandomTile ==
  res.op = "addRandomTile" =>
    IF \E i \in DOMAIN res.before : res.before[i] = 0
      THEN /\ res.ok
           /\ Cardinality(Changed(board, res.before)) = 1
           /\ \A i \in Changed(board, res.before) :
                res.before[i] = 0 /\ board[i] \in {1, 2}
      ELSE ~res.ok /\ board = res.before

C7_Witness ==
  /\ res.op = "addRandomTile"
  /\ res.ok
  /\ \E i \in DOMAIN board : res.before[i] = 0 /\ board[i] = 2

(***************************************************************************)
(* Reference definitions the network claims are stated with.               *)
(***************************************************************************)
\* a board of the 4x4 network: 16 cells
WellSized(b) == DOMAIN b = 0..15

\* every position of the variant is a cell of the board
RefDefined(b, variant) == \A i \in 1..Len(variant) : variant[i] \in DOMAIN b

\* the tile codes at the variant's positions read as a radix-16 number, the
\* first position most significant
RECURSIVE RefDigits(_, _, _)
RefDigits(b, variant, i) ==
  IF i > Len(variant) THEN 0
  ELSE b[variant[i]] * 16 ^ (Len(variant) - i) + RefDigits(b, variant, i + 1)

RefIndex(b, variant) == RefDigits(b, variant, 1)

\* the entry of a LUT, zero where nothing is held
LutAt(lp, i) == IF i \in DOMAIN lp THEN lp[i] ELSE 0

\* the variants of pattern p that address entry i on board b
RefHitters(p, b, i) ==
  {j \in 1..Len(patterns[p].variants) :
     /\ RefDefined(b, patterns[p].variants[j])
     /\ RefIndex(b, patterns[p].variants[j]) = i}

RefHits(p, b, i) == Cardinality(RefHitters(p, b, i))

\* the entries of pattern p some variant addresses on board b
RefAddressed(p, b) ==
  {RefIndex(b, patterns[p].variants[j]) :
     j \in {k \in 1..Len(patterns[p].variants) :
              RefDefined(b, patterns[p].variants[k])}}

RECURSIVE SumSeq(_, _)
SumSeq(f, n) == IF n = 0 THEN 0 ELSE f[n] + SumSeq(f, n - 1)

RECURSIVE SumSet(_, _)
SumSet(f, S) ==
  IF S = {} THEN 0
  ELSE LET x == CHOOSE y \in S : TRUE IN f[x] + SumSet(f, S \ {x})

RefEvaluate(l, b) ==
  SumSeq([p \in 1..Len(patterns) |->
            SumSeq([j \in 1..Len(patterns[p].variants) |->
                      LutAt(l[p], RefIndex(b, patterns[p].variants[j]))],
                   Len(patterns[p].variants))],
         Len(patterns))

TotalVariants ==
  SumSeq([p \in 1..Len(patterns) |-> Len(patterns[p].variants)], Len(patterns))

\* integers of magnitude up to 2^24 weight units are float32 numbers
ExactLimit == 2 ^ 24

\* x + d + ... + d, k times, rounded to float32 after every addition
RECURSIVE AddRounded(_, _, _)
AddRounded(x, d, k) ==
  IF k = 0 THEN x ELSE AddRounded(fround(x + d), d, k - 1)

\* adding d to the entries b addresses, times times per addressing variant,
\* never leaves the integers float32 holds exactly
ExactOn(l, b, d, times) ==
  \A p \in 1..Len(patterns) : \A i \in RefAddressed(p, b) :
    Abs(LutAt(l[p], i)) + times * RefHits(p, b, i) * Abs(d) <= ExactLimit

\* the sum over all LUT entries of after - before
SumChanges(before, after) ==
  SumSeq([p \in 1..Len(patterns) |->
            SumSet([i \in (DOMAIN before[p]) \cup (DOMAIN after[p]) |->
                      LutAt(after[p], i) - LutAt(before[p], i)],
                   (DOMAIN before[p]) \cup (DOMAIN after[p]))],
         Len(patterns))

(***************************************************************************)
(* Claims about the network.                                               *)
(***************************************************************************)
\* C8: evaluate(board) is the sum, over every pattern and every variant of
\* it, of the pattern's LUT entry at the radix-16 number read from the tile
\* codes at the variant's positions, first position most significant;
\* evaluate changes no LUT entry and leaves the board as it was.
C8_EvaluateIsSum ==
  res.op = "evaluate" /\ WellSized(res.board) =>
    /\ ~res.value.nan
    /\ res.value.v = RefEvaluate(res.lutBefore, res.board)
    /\ lut = res.lutBefore
    /\ board = res.board

C8_Witness ==
  /\ res.op = "evaluate"
  /\ res.board = GenericBoard
  /\ ~res.value.nan
  /\ res.value.v = TotalVariants
  /\ lut # newLuts

\* C9, as stated: update(board, delta) makes every LUT entry grow by delta
\* times the number of variants that address it on board, so that the sum of
\* all changes is delta times the total number of variants; nothing else
\* changes.
C9_UpdateAddsExactly ==
  res.op = "update" /\ WellSized(res.board) =>
    /\ \A p \in 1..Len(patterns) :
         \A i \in (DOMAIN lut[p]) \cup (DOMAIN res.lutBefore[p])
                    \cup RefAddressed(p, res.board) :
           LutAt(lut[p], i) - LutAt(res.lutBefore[p], i)
             = RefHits(p, res.board, i) * res.delta
    /\ SumChanges(res.lutBefore, lut) = res.delta * TotalVariants
    /\ board = res.board

\* C9, amended: update(board, delta) adds delta to a LUT entry once per
\* variant that addresses it on board, without deduplication, each addition
\* rounded to float32; where the additions stay within the integers float32
\* holds exactly the entry grows by exactly k * delta for its k variants,
\* and when that is so for every addressed entry the sum of all changes is
\* delta times the total number of variants.  Entries no variant addresses
\* and the board are unchanged.
C9_UpdateAddsPerVariant ==
  res.op = "update" /\ WellSized(res.board) =>
    /\ \A p \in 1..Len(patterns) :
         \A i \in (DOMAIN lut[p]) \cup (DOMAIN res.lutBefore[p])
                    \cup RefAddressed(p, res.board) :
           LET old == LutAt(res.lutBefore[p], i)
               k   == RefHits(p, res.board, i)
           IN  /\ LutAt(lut[p], i) = AddRounded(old, res.delta, k)
               /\ k = 0 => LutAt(lut[p], i) = old
               /\ Abs(old) + k * Abs(res.delta) <= ExactLimit =>
                    LutAt(lut[p], i) - old = k * res.delta
    /\ ExactOn(res.lutBefore, res.board, res.delta, 1) =>
         SumChanges(res.lutBefore, lut) = res.delta * TotalVariants
    /\ board = res.board

C9_Witness ==
  /\ res.op = "update"
  /\ res.board = EmptyBoard
  /\ res.delta = 1
  /\ RefHits(1, res.board, 0) = Len(patterns[1].variants)
  /\ LutAt(lut[1], 0) = LutAt(res.lutBefore[1], 0) + Len(patterns[1].variants)
  /\ SumChanges(res.lutBefore, lut) = TotalVariants

\* C10, as stated: an update with delta = 0 leaves evaluate unchanged on
\* every board, and two successive updates of one board by delta leave the
\* network as the single update of that board by 2 * delta would.
C10_UpdateLinear ==
  /\ res.op = "update" /\ res.delta = 0 =>
       \A b \in NetBoards : evaluate(lut, b) = evaluate(res.lutBefore, b)
  /\ ( /\ prev.op = "update" /\ res.op = "update"
       /\ prev.board = res.board /\ prev.delta = res.delta )
       => lut = update(prev.lutBefore, res.board, 2 * res.delta)

\* C10, amended: an update with delta = 0 leaves evaluate unchanged on every
\* board; two successive updates of one board by delta leave the network as
\* the single update by 2 * delta would, provided the additions stay within
\* the integers float32 holds exactly.
C10_UpdateLinearWhenExact ==
  /\ res.op = "update" /\ res.delta = 0 =>
       \A b \in NetBoards : evaluate(lut, b) = evaluate(res.lutBefore, b)
  /\ ( /\ prev.op = "update" /\ res.op = "update"
       /\ prev.board = res.board /\ prev.delta = res.delta
       /\ ExactOn(prev.lutBefore, res.board, res.delta, 2) )
       => lut = update(prev.lutBefore, res.board, 2 * res.delta)

C10_Witness ==
  /\ prev.op = "update" /\ res.op = "update"
  /\ prev.board = res.board /\ prev.delta = res.delta
  /\ res.board \in GoodBoards
  /\ res.delta # 0
  /\ prev.lutBefore # newLuts
  /\ ExactOn(prev.lutBefore, res.board, res.delta, 2)
  /\ lut = update(prev.lutBefore, res.board, 2 * res.delta)

\* C3: a board whose cell count is not side * side is rejected: evaluate and
\* update end with an error outcome, not with a value or a changed network.
C3_RejectsWrongSize ==
  res.op \in {"evaluate", "update"} /\ Cardinality(DOMAIN res.board) # side * side =>
    /\ res.outcome = "error"
    /\ lut = res.lutBefore

(***************************************************************************)
(* Claims about weight files.                                              *)
(***************************************************************************)
\* the LUT array stored for pattern p in the file of the last load
StoredLut(p) ==
  IF res.op = "load" THEN res.file.patterns[p].lut
  ELSE res.file.patterns[p].floats

\* the LUT length the file of the last load declares for pattern p
DeclaredLen(p) ==
  IF res.op = "load" THEN res.file.patterns[p].lutSize
  ELSE res.file.patterns[p].lutLen

\* the file's pattern count or one of its LUT lengths is not the catalog's
Mismatched ==
  \/ res.file.numPatterns # Len(patterns)
  \/ \E p \in 1..Len(res.file.patterns) :
       p <= Len(patterns) /\ DeclaredLen(p) # lutSize(patterns[p].tupleLen)

\* C1: load and loadBinary of a file whose pattern count, or whose LUT
\* length for a pattern at any position, differs from the catalog fail with
\* an error and leave every LUT entry of the network as it was.
C1_MismatchNeverApplied ==
  res.op \in {"load", "loadBinary"} /\ Mismatched =>
    /\ res.outcome = "error"
    /\ lut = res.lutBefore

\* C2: when load or loadBinary returns without error every LUT entry of the
\* network is the value the file stores for it, so no earlier weight
\* survives, also when the stored contents are shorter than the declared
\* length.
C2_LoadReplacesAll ==
  res.op \in {"load", "loadBinary"} /\ res.outcome = "ok" =>
    \A p \in 1..Len(patterns) :
      \A i \in (DOMAIN lut[p]) \cup (DOMAIN StoredLut(p).vals) :
        /\ i < StoredLut(p).len
        /\ LutAt(lut[p], i) = fround(LutAt(StoredLut(p).vals, i))

\* C11: saving a network and loading the file into a network of the same
\* catalog succeeds and reproduces every LUT entry, in the text form (save,
\* load) and in the binary form (saveBinary, loadBinary).
C11_RoundTripExact ==
  res.op \in {"saveLoad", "saveLoadBinary"} =>
    /\ res.outcome = "ok"
    /\ lut = res.lutBefore

\* the round trip reproduces every LUT entry when the weights are finite, and
\* in the binary form always
C11_RoundTripFinite ==
  /\ res.op = "saveLoadBinary" => res.outcome = "ok" /\ lut = res.lutBefore
  /\ ( /\ res.op = "saveLoad"
       /\ \A p \in DOMAIN res.lutBefore : \A i \in DOMAIN res.lutBefore[p] :
            res.lutBefore[p][i] # Infinity )
       => res.outcome = "ok" /\ lut = res.lutBefore

(***************************************************************************)
(* Claims about the catalog.                                               *)
(***************************************************************************)
\* C12: allSymmetries returns between 1 and 8 index lists, no two of them
\* equal as ordered lists, the first being the pattern itself and each as
\* long as the pattern.
C12_VariantsDistinct ==
  res.op = "allSymmetries" =>
    /\ Len(res.variants) \in 1..8
    /\ \A j, k \in 1..Len(res.variants) :
         j # k => res.variants[j] # res.variants[k]
    /\ res.variants[1] = res.pattern
    /\ \A j \in 1..Len(res.variants) :
         Len(res.variants[j]) = Len(res.pattern)

C12_Witness ==
  /\ res.op = "allSymmetries"
  /\ side = 5
  /\ res.pattern \in CatalogPatterns(5)
  /\ Len(res.variants) = 8
  /\ res.variants[1] = res.pattern

\* C13: the 4x4 catalog has 7 base patterns that expand to 8 distinct
\* variants each, 56 in total; the 5x5 catalog has 12 base patterns that
\* expand to 96 variants in total; stats reports 7 patterns and 56 variants.
C13_CatalogCounts ==
  /\ res.op = "expand" =>
       /\ Len(res.variants) = IF side = 4 THEN 7 ELSE 12
       /\ SumSeq([p \in 1..Len(res.variants) |-> Len(res.variants[p])],
                 Len(res.variants)) = IF side = 4 THEN 56 ELSE 96
       /\ side = 4 =>
            \A p \in 1..Len(res.variants) :
              Cardinality({res.variants[p][j] : j \in 1..Len(res.variants[p])}) = 8
  /\ res.op = "stats" =>
       res.stats.numBasePatterns = 7 /\ res.stats.totalVariants = 56

C13_Witness ==
  /\ res.op = "expand"
  /\ side = 5
  /\ Len(res.variants) = 12

\* the map that applies f first and g afterwards
Compose(f, g) == [cell \in DOMAIN f |-> g[f[cell]]]

\* C14: the 8 entries of SYMMETRY_MAPS are pairwise distinct permutations of
\* the cells 0..side*side-1, contain the identity and are closed under
\* composition, with a rotation of order 4 and a reflection that inverts it
\* (the dihedral group of the square); the four flipped maps are the
\* horizontal reflection followed by the rotation of 0, 90, 180 and 270
\* degrees.
C14_SymmetryGroup ==
  res.op = "buildMaps" =>
    LET maps  == res.maps
        cells == 0..(side * side - 1)
        id    == [cell \in cells |-> cell]
    IN  /\ Len(maps) = 8
        /\ \A t \in 1..8 :
             /\ DOMAIN maps[t] = cells
             /\ {maps[t][cell] : cell \in cells} = cells
        /\ \A s, t \in 1..8 : s # t => maps[s] # maps[t]
        /\ maps[1] = id
        /\ \A s, t \in 1..8 : \E u \in 1..8 : Compose(maps[s], maps[t]) = maps[u]
        /\ Compose(maps[2], maps[2]) = maps[3]
        /\ Compose(maps[3], maps[2]) = maps[4]
        /\ Compose(maps[4], maps[2]) = id
        /\ Compose(maps[5], maps[5]) = id
        /\ Compose(maps[5], Compose(maps[2], maps[5])) = maps[4]
        /\ \A k \in 1..4 : maps[4 + k] = Compose(maps[5], maps[k])

C14_Witness ==
  /\ res.op = "buildMaps"
  /\ side = 5
  /\ res.maps[6] = Compose(res.maps[5], res.maps[2])
  /\ res.maps[6] # Compose(res.maps[2], res.maps[5])

(***************************************************************************)
(* Claims about move selection.                                            *)
(***************************************************************************)
\* the directions that change the board
Legal(b, size) == {dir \in 0..3 : move(b, dir, size).board # b}

\* reward(action) + evaluate(afterstate)
ActionValue(l, b, dir, size) ==
  move(b, dir, size).reward + RefEvaluate(l, move(b, dir, size).board)

\* C17: the move the greedy policy chooses is a legal action that maximizes
\* reward(action) + evaluate(afterstate) over the legal actions, and among
\* the maximizing actions it is the first in the order up, right, down,
\* left (0, 1, 2, 3).
C17_GreedyMaximizes ==
  res.op = "greedy" /\ Legal(res.board, side) # {} =>
    /\ res.dir \in Legal(res.board, side)
    /\ \A dir \in Legal(res.board, side) :
         /\ ActionValue(lut, res.board, res.dir, side)
              >= ActionValue(lut, res.board, dir, side)
         /\ ActionValue(lut, res.board, res.dir, side)
              = ActionValue(lut, res.board, dir, side) => res.dir <= dir

C17_Witness ==
  /\ res.op = "greedy"
  /\ res.board = MixedBoard
  /\ lut # newLuts
  /\ res.dir = 1
  /\ move(res.board, 1, side).reward < move(res.board, 0, side).reward

C20_DepthZeroIsGreedy ==
  res.op = "expectimax" /\ res.depth = 0 =>
    res.dir = greedySelectMove(lut, res.board, side)

C20_Witness ==
  /\ res.op = "expectimax"
  /\ res.depth = 0
  /\ lut # newLuts
  /\ res.dir = 1
  /\ res.dir # expectimaxSelectMove(lut, res.board, 2, side, <<15>>)

\* the sum of the values f[x] of a function over the set S
RECURSIVE RefSum(_, _)
RefSum(f, S) ==
  IF S = {} THEN 0
  ELSE LET x == CHOOSE y \in S : TRUE IN f[x] + RefSum(f, S \ {x})

\* the greatest number of a non-empty set of integers
RefMax(S) == CHOOSE x \in S : \A y \in S : x >= y

\* the board with the tile of a code placed in a cell
RefPlaced(b, cell, code) == [b EXCEPT ![cell] = code]

\* the cells a chance node expands, as a set
RefExpanded(b, size, pick) ==
  LET cells == expandedCells(emptyList(b, 0, size), pick)
  IN  {cells[k] : k \in 1..Len(cells)}

\* The reference values of the search with one level of chance nodes, in
\* units of 1 / (10 * RefScale): RefScale is a common multiple of the
\* numbers of cells a chance node can expand (1..8).
RefScale == 3 * 5 * 7 * 8

\* a decision node above chance nodes of depth 0, in whole numbers
RefDecisionLeaf(l, b, size) ==
  IF Legal(b, size) = {} THEN RefEvaluate(l, b)
  ELSE RefMax({ActionValue(l, b, dir, size) : dir \in Legal(b, size)})

\* chance(board, depth) of the reference for depth <= 1, in units
RefChance(l, b, depth, size, pick) ==
  IF depth <= 0 THEN 10 * RefScale * RefEvaluate(l, b)
  ELSE LET cells == RefExpanded(b, size, pick)
       IN  (RefScale \div Cardinality(cells))
             * RefSum([c \in cells |->
                         9 * RefDecisionLeaf(l, RefPlaced(b, c, 1), size)
                           + 1 * RefDecisionLeaf(l, RefPlaced(b, c, 2), size)],
                      cells)

\* reward + chance(afterstate, depth - 1) of an action, in units
RefActionValue(l, b, dir, depth, size, pick) ==
  10 * RefScale * move(b, dir, size).reward
    + RefChance(l, move(b, dir, size).board, depth - 1, size, pick)

\* a value of the search is the number of units
RefEqual(value, units) ==
  /\ ~value.nan /\ ~value.negInf
  /\ value.n * 10 * RefScale = units * value.d

\* C21: the value the expectimax search computes equals the reference
\* definition: a chance node of depth <= 0 is evaluate(board), otherwise
\* the mean over the expanded cells of 0.9 * decision(tile 2 there) + 0.1 *
\* decision(tile 4 there); a decision node is the maximum over the legal
\* actions of reward + chance(afterstate, depth - 1), or evaluate(board)
\* without a legal action; and selectMove picks an action that maximizes
\* reward + chance(afterstate, depth - 1).
C21_ExpectimaxIsReference ==
  res.op = "expectimax" /\ Legal(res.board, side) # {} =>
    /\ res.dir \in Legal(res.board, side)
    /\ \E chosen \in {RefActionValue(lut, res.board, res.dir, res.depth, side,
                                     res.pick)} :
         /\ RefEqual(res.value, chosen)
         /\ \A dir \in Legal(res.board, side) \ {res.dir} :
              chosen >= RefActionValue(lut, res.board, dir, res.depth, side,
                                       res.pick)

\* a search of depth 2 on a trained network whose choice differs from the
\* greedy one, with sampled chance nodes
C21_Witness ==
  /\ res.op = "expectimax"
  /\ res.depth = 2
  /\ lut # newLuts
  /\ res.dir \in Legal(res.board, side)
  /\ res.value.d > 1
  /\ res.dir # greedySelectMove(lut, res.board, side)

\* C22: exploring hypothetical moves never changes the caller's board:
\* when GreedyPlayer.selectMove, ExpectimaxPlayer.selectMove (of any depth,
\* with the tiles its chance nodes place and take back) or moveClone
\* returns, the board passed in holds the cells it held before the call,
\* and no entry of a LUT has changed.
C22_ExplorationKeepsBoard ==
  res.op \in {"greedy", "expectimax", "moveClone"} =>
    /\ board = res.board
    /\ lut = res.lutBefore

\* moveClone returned a changed board, and a search of depth 2 expanded
\* chance nodes, while the caller's board stayed
C22_Witness ==
  \/ res.op = "moveClone" /\ res.moved /\ res.after # board /\ board = res.board
  \/ res.op = "expectimax" /\ res.depth = 2 /\ res.dir # -1 /\ board = res.board

(***************************************************************************)
(* Claims about playEpisode.                                               *)
(***************************************************************************)
\* the afterstate and the reward of the move playEpisode has selected
Chosen == move(board, ep.best.bestDir, side)

\* C15: in playEpisode every move but the first makes exactly one update
\* call, between the selection and the application of the move:
\* update(prevAfterstate, learningRate * (prevReward + evaluate(chosen
\* afterstate) - evaluate(prevAfterstate))), where prevAfterstate and
\* prevReward are the afterstate and the reward of the move before and both
\* values are read from the weights as they are before the update; the first
\* move makes no update call, and neither do selection and application.
C15_TdUpdateEachMove ==
  [][ep.pc \in {"select", "td", "apply"} =>
       /\ ep.calls = (IF ep.steps = 0 \/ ep.pc = "apply" THEN ep.steps ELSE ep.steps - 1)
       /\ ep.pc = "select" => ep'.calls = ep.calls /\ lut' = lut
       /\ ep.pc = "td" /\ ep.steps = 0 => ep'.calls = 0 /\ lut' = lut /\ ep'.pc = "apply"
       /\ ep.pc = "td" /\ ep.steps > 0 =>
            LET target == ep.learningRate *
                            (ep.prevReward + RefEvaluate(lut, Chosen.board)
                               - RefEvaluate(lut, ep.prevAfterstate))
            IN  /\ ep'.calls = ep.calls + 1
                /\ ep'.last = [at |-> "td", board |-> ep.prevAfterstate, delta |-> target]
                /\ lut' = update(lut, ep.prevAfterstate, target)
                /\ ep'.pc = "apply"
       /\ ep.pc = "apply" =>
            /\ ep'.calls = ep.calls /\ lut' = lut
            /\ ep'.steps = ep.steps + 1
            /\ ep'.prevAfterstate = Chosen.board
            /\ ep'.prevReward = Chosen.reward]_vars

\* a later move of an episode with learning rate 1 has made its update call,
\* with a delta that is not zero, and is about to be applied
C15_Witness ==
  /\ ep.pc = "apply" /\ ep.steps > 1 /\ ep.learningRate = 1
  /\ ep.last.at = "td" /\ ep.last.delta # 0 /\ ep.prevReward # 0
  /\ lut # newLuts

C19_EvaluationKeepsWeights ==
  ep.pc \in {"game", "loop", "returned"} => lut = ep.start

\* evaluateNetwork has returned from two games played with a trained network
C19_Witness ==
  /\ ep.pc = "returned" /\ ep.numGames = 2 /\ Len(res.scores) = 2
  /\ res.scores[2] > 0
  /\ lut # newLuts /\ lut = ep.start

\* C23: a committed move is always fully applied: the afterstate of a move
\* that changes the board has an empty cell, so the addRandomTile that
\* follows the committed move of playEpisode succeeds, and the board after
\* the step is the afterstate with exactly one new tile of code 1 or 2.
C23_CommittedMoveApplied ==
  [][ep.pc = "apply" =>
       \E after \in {move(board, ep.best.bestDir, side)} :
         /\ after.moved
         /\ after.board = ep.best.bestAfterstate
         /\ emptyCount(after.board, side) >= 1
         /\ \E cell \in emptyCells(after.board, side) :
              /\ board'[cell] \in {1, 2}
              /\ \A other \in 0..(TOTAL(side) - 1) \ {cell} :
                   board'[other] = after.board[other]]_vars

\* a move was committed whose afterstate had a single empty cell, and the
\* new tile filled the board
C23_Witness ==
  /\ ep.pc \in {"select", "terminal"} /\ ep.steps >= 1
  /\ emptyCount(ep.prevAfterstate, side) = 1
  /\ emptyCount(board, side) = 0

C25_ChanceExpandsCells ==
  res.op = "chance" /\ res.depth > 0 /\ emptyCount(res.board, side) > 0 =>
    LET empty    == emptyCells(res.board, side)
        expanded == {res.cells[k] : k \in 1..Len(res.cells)}
    IN  /\ Cardinality(empty) <= 8 => expanded = empty
        /\ Cardinality(empty) > 8 => Cardinality(expanded) = 8 /\ expanded \subseteq empty
        /\ Len(res.cells) = Cardinality(expanded)
        /\ ~res.value.nan /\ ~res.total.nan
        /\ res.value.n * Cardinality(expanded) * res.total.d
             = res.total.n * res.value.d

\* a chance node on a board with more than 8 empty cells, whose shuffle
\* brought other cells to the front than the first 8
C25_Witness ==
  /\ res.op = "chance" /\ res.depth = 1
  /\ emptyCount(res.board, side) > 8
  /\ Len(res.cells) = 8
  /\ res.cells # SubSeq(emptyList(res.board, 0, side), 1, 8)
  /\ lut # newLuts

\* the board mirrored left to right, transposed, and flipped top to bottom
MirrorLR(b, size) ==
  [i \in DOMAIN b |-> b[(i \div size) * size + (size - 1 - (i % size))]]

Transposed(b, size) == [i \in DOMAIN b |-> b[(i % size) * size + (i \div size)]]

FlipTB(b, size) ==
  [i \in DOMAIN b |-> b[(size - 1 - (i \div size)) * size + (i % size)]]

\* C26: all four directions apply the same slide toward their edge: moving
\* right is mirroring the board left to right, moving left and mirroring
\* back; moving up is transposing, moving left and transposing back; moving
\* down is flipping the board top to bottom, moving up and flipping back;
\* each with the same board, the same reward and the same moved flag.
C26_DirectionsAreOneSlide ==
  res.op = "move" =>
    /\ res.dir = 1 =>
         \E m \in {move(MirrorLR(res.before, side), 3, side)} :
           /\ board = MirrorLR(m.board, side)
           /\ res.reward = m.reward /\ res.moved = m.moved
    /\ res.dir = 0 =>
         \E m \in {move(Transposed(res.before, side), 3, side)} :
           /\ board = Transposed(m.board, side)
           /\ res.reward = m.reward /\ res.moved = m.moved
    /\ res.dir = 2 =>
         \E m \in {move(FlipTB(res.before, side), 0, side)} :
           /\ board = FlipTB(m.board, side)
           /\ res.reward = m.reward /\ res.moved = m.moved

\* a move to the right that merged tiles on a board that is not its own
\* mirror image, and whose result differs from the move to the left
C26_Witness ==
  /\ res.op = "move" /\ res.dir = 1 /\ res.moved /\ res.reward > 0
  /\ MirrorLR(res.before, side) # res.before
  /\ board # move(res.before, 3, side).board

\* the codes a LUT index has a digit for
Codes == 0..(NUM_VALUES - 1)

\* C27: for every board whose cells hold codes in 0..15 and every action,
\* the board after move holds only codes in 0..15, so that the index of
\* every variant of every pattern lies in [0, LUT length), and evaluate and
\* update read and write an existing LUT entry.
C27_CodesStayInRange ==
  res.op = "move" /\ (\A i \in DOMAIN res.before : res.before[i] \in Codes) =>
    /\ \A i \in DOMAIN board : board[i] \in Codes
    /\ side = 4 =>
         /\ \A p \in 1..Len(patterns) : \A j \in 1..Len(patterns[p].variants) :
              /\ index(board, patterns[p].variants[j]) >= 0
              /\ index(board, patterns[p].variants[j])
                   < lutSize(patterns[p].tupleLen)
         /\ ~evaluate(newLuts, board).nan

\* C28: on a board with a tile, canMove(board) is true exactly when one of
\* the four directions changes the board; so, with finite values of the
\* network, an action is legal at the top of every iteration of the loop of
\* playEpisode and the selection finds one, and the game ends only through
\* the canMove check that follows the new tile, with a move played.
C28_GameEndsAtCanMove ==
  [][/\ board # NoBoard /\ (\E i \in DOMAIN board : board[i] # 0) =>
          (canMove(board, side) <=> Legal(board, side) # {})
     /\ ep.pc = "select" =>
          /\ Legal(board, side) # {}
          /\ ep'.pc = "td" /\ ep'.best.bestDir \in Legal(board, side)
     /\ ep.pc # "terminal" /\ ep'.pc = "terminal" =>
          /\ ep.pc = "apply" /\ ep'.steps >= 1
          /\ ~canMove(board', side) /\ Legal(board', side) = {}]_vars

\* a game of several moves has ended on a full board that no direction
\* changes
C28_Witness ==
  /\ ep.pc = "terminal" /\ ep.steps > 1
  /\ ~canMove(board, side)
  /\ Legal(board, side) = {}
  /\ emptyCount(board, side) = 0

\* the sum of the actual tile values of a board
TileSum(b) == RefSum([i \in DOMAIN b |-> tileValue(b[i])], DOMAIN b)

\* the episode is held at an update whose weights the model does not hold
EpisodeCapped ==
  \/ ep.pc = "td" /\ \E step \in {tdStep(lut, ep)} :
       step.nan \/ ~WithinEpisodeCap(step.lut)
  \/ ep.pc = "terminal" /\ \E step \in {terminalStep(lut, ep)} :
       step.nan \/ ~WithinEpisodeCap(step.lut)

\* C29: every episode terminates: each committed move leaves the sum of the
\* actual tile values of the board unchanged and each new tile increases
\* it, and from the call of playEpisode on, the loop reaches the terminal
\* update and returns after finitely many moves.
C29_EpisodeTerminates ==
  /\ [][ep.pc = "apply" =>
          \E after \in {move(board, ep.best.bestDir, side).board} :
            /\ TileSum(after) = TileSum(board)
            /\ TileSum(board') > TileSum(after)]_vars
  /\ (ep.pc = "select") ~> (ep.pc = "done" \/ EpisodeCapped)

\* an episode of many moves has returned after its terminal update, on a
\* board that merges have brought to larger tiles
C29_Witness ==
  /\ ep.pc = "done" /\ ep.steps >= 40
  /\ ep.last.at = "terminal"
  /\ maxTile(board, side) >= 5
  /\ TileSum(board) > 2 * ep.steps

(***************************************************************************)
(* Claims about the loop of Trainer.train.                                 *)
(***************************************************************************)
\* bestScore is the greatest episode score seen so far (0 before any)
BestScoreIsMaximum ==
  ep.pc = "train" => ep.bestScore = RefMax(ep.seen \cup {0})

\* C30: in the loop of train, bestScore is always the greatest episode score
\* seen so far, and whenever an episode after episode 100 sets a new best
\* score that exceeds the previous best score by more than 10%, or sets a
\* new best at an episode number divisible by 100, a 'best' GIF is recorded
\* for that episode.
C30_BestGifOnImprovement ==
  /\ BestScoreIsMaximum
  /\ res.op = "train" /\ res.ep > 100 /\ res.score > res.bestBefore
       /\ (res.ep % 100 = 0 \/ 10 * res.score > 11 * res.bestBefore)
     => "best" \in res.gifs

\* after episode 100 and away from a multiple of 100, an episode has raised
\* the best score from 400 to 1000 and no 'best' GIF has been recorded
C30_Witness ==
  /\ res.op = "train" /\ res.ep > 100 /\ res.ep % 100 # 0
  /\ res.bestBefore = 400 /\ res.score = 1000
  /\ ep.bestScore = 1000
  /\ "best" \notin res.gifs

====
